---- MODULE Spec2Model ----
(***************************************************************************)
(* A model of crac-mcp: the command parser (parseCommand), the context     *)
(* retrieval engine (ContextSearcher.searchContext) and the template       *)
(* retrieval engine (TemplateSearcher.searchTemplates), the rule detector  *)
(* (CracRulesDetector.detectRules), the prompt builders (PromptBuilder,    *)
(* TaskGeneratorBuilder), the handlers of dev_task, generate_tasks and     *)
(* get_crac_rules, the startup of the HTTP server, and the API key         *)
(* middleware (apiKeyAuthMiddleware, validateApiKey).                      *)
(*                                                                         *)
(* The parser's strings are sequences of one-character strings, so that    *)
(* trimming, case folding, word boundaries and replacement are computed as *)
(* the JavaScript code computes them. The texts of the retrieval engines   *)
(* are sequences of pieces (literals and field values), the empty string   *)
(* being the empty sequence.                                               *)
(***************************************************************************)
EXTENDS Integers, Sequences, FiniteSets, TLC

VARIABLES
    cmd,         \* parser: the command string handed to parseCommand
    parsed,      \* parser: the ParsedCommand returned (NoValue before the call)
    ppc,         \* parser: position of the caller: "input" | "parsed"
    env,         \* process.env: the three configuration variables
    supabase,    \* context-searcher: the cached SupabaseClient (FALSE: null)
    genAI,       \* gemini-client: the cached GoogleGenerativeAI (FALSE: null)
    supabaseBuilt, \* context-searcher: createClient calls made so far
    genAIBuilt,  \* gemini-client: new GoogleGenerativeAI calls made so far
    devApps,     \* backend: the dev_apps table, key -> "active" | "inactive" | "absent"
    scReq,       \* searchContext: the arguments of the invocation
    scPhase,     \* searchContext: "idle" | "validating" | "listing" | "searching" | "returned" | "failed"
    asp,         \* searchContext: each aspect query's position
    aspResults,  \* searchContext: each aspect query's SearchResult rows
    aspError,    \* searchContext: the error each aspect query rejected with
    embedCalls,  \* embedContent calls issued for the invocation, per aspect
    searchCalls, \* match_dev_contexts calls issued for the invocation, per aspect
    scError,     \* searchContext: the error the invocation rejected with
    scResult,    \* searchContext: the RAGContext the invocation resolved with
    registryFault, \* the error of a dev_apps query that failed during the invocation
    tsPhase,     \* searchTemplates: "idle" | "searching" | "returned" | "failed"
    slot,        \* searchTemplates: each template lookup's position
    slotContent, \* searchTemplates: the content each template lookup resolved with
    slotError,   \* searchTemplates: the error each template lookup rejected with
    tsError,     \* searchTemplates: the error the call rejected with
    tsResult,    \* searchTemplates: the TemplateContext the call resolved with
    ruleContext, \* detectRules: the context argument (Null: undefined)
    ruleTypes,   \* detectRules: the list returned (<<>> before the call)
    dpc,         \* detectRules: position of the caller: "idle" | "input" | "detected"
    pbCommand,   \* buildPrompt: the ParsedCommand argument
    pbContext,   \* buildPrompt: the RAGContext argument
    pbSearcher,  \* PromptBuilder.contextSearcher is set
    pbPhase,     \* buildPrompt: "idle" | "input" | "fetchingRules" | "built" | "failed"
    pbFetch,     \* buildPrompt: how the nested rules fetch ended
    pbPrompt,    \* buildPrompt: the StructuredPrompt it resolved with
    pbError,     \* buildPrompt: the error it rejected with
    srvPhase,    \* HTTP server process: "off" | "starting" | "configured" | "listening" | "exited"
    srvServed,   \* HTTP server process: requests handed to the /mcp route
    hOp,         \* handler: "none" | "dev_task" | "generate_tasks" | "get_crac_rules"
    hArg,        \* handler: the command (or context) argument (Null: undefined)
    hPhase,      \* handler: "idle" | "awaitingContext" | "awaitingAll" | "awaitingRules" | "returned" | "threw"
    hRulesCall,  \* handler: the arguments of the searchRules call of getRules
    hText,       \* handler: the text of the message it returned
    hThrown,     \* handler: the error that escaped from it
    apiKeys,     \* backend: the rows of the api_keys table, newest first
    authClient,  \* api-key client: the cached SupabaseClient (FALSE: null)
    mwReq,       \* middleware: the authorization and x-api-key headers of the request
    mwPhase,     \* middleware: "idle" | "listing" | "verifying" | "responded" | "passed" | "rejected"
    mwApiKey,    \* middleware: the key extracted from the request (Null: null)
    vKeys,       \* validateApiKey: candidateKeys
    vIndex,      \* validateApiKey: the position in candidateKeys of the key under verification
    mwStatus,    \* middleware: the status of the response sent (0: none sent)
    mwBody,      \* middleware: the JSON body of the response sent
    mwNext,      \* middleware: calls of next() made
    mwAttached,  \* middleware: req.apiKey (Null: not set)
    mwThrown,    \* middleware: the error its promise rejected with
    updPhase     \* updateLastUsedAt: "none" | "pending" | "done" | "logged" | "unhandled"

parserVars == <<cmd, parsed, ppc>>

clientVars == <<env, supabase, genAI, supabaseBuilt, genAIBuilt, devApps>>

searchVars ==
    <<scReq, scPhase, asp, aspResults, aspError, embedCalls, searchCalls,
      scError, scResult, registryFault>>

templateVars == <<tsPhase, slot, slotContent, slotError, tsError, tsResult>>

detectorVars == <<ruleContext, ruleTypes, dpc>>

promptVars == <<pbCommand, pbContext, pbSearcher, pbPhase, pbFetch, pbPrompt, pbError>>

serverVars == <<srvPhase, srvServed>>

handlerVars == <<hOp, hArg, hPhase, hRulesCall, hText, hThrown>>

authVars ==
    <<apiKeys, authClient, mwReq, mwPhase, mwApiKey, vKeys, vIndex, mwStatus, mwBody,
      mwNext, mwAttached, mwThrown, updPhase>>

vars ==
    <<parserVars, clientVars, searchVars, templateVars, detectorVars, promptVars,
      serverVars, handlerVars, authVars>>

NoValue == [none |-> TRUE]

Range(s) == {s[i] : i \in 1..Len(s)}

(***************************************************************************)
(* Characters.                                                             *)
(***************************************************************************)
LowerAlphabet ==
    <<"a","b","c","d","e","f","g","h","i","j","k","l","m",
      "n","o","p","q","r","s","t","u","v","w","x","y","z">>

UpperAlphabet ==
    <<"A","B","C","D","E","F","G","H","I","J","K","L","M",
      "N","O","P","Q","R","S","T","U","V","W","X","Y","Z">>

Digits == {"0","1","2","3","4","5","6","7","8","9"}

LowerOf ==
    [c \in Range(UpperAlphabet) |->
        LowerAlphabet[CHOOSE i \in 1..Len(UpperAlphabet) : UpperAlphabet[i] = c]]

\* String.prototype.toLowerCase on one (ASCII) character
ToLowerChar(c) == IF c \in DOMAIN LowerOf THEN LowerOf[c] ELSE c

ToLowerCase(s) == [i \in 1..Len(s) |-> ToLowerChar(s[i])]

WordChars ==
    Range(LowerAlphabet) \cup Range(UpperAlphabet) \cup Digits \cup {"_"}

SpaceChars == {" ", "\t", "\n", "\r"}

\* the regular expression class \w
IsWordChar(c) == c \in WordChars

\* the regular expression class \s (and the characters trim() strips)
IsSpace(c) == c \in SpaceChars

(***************************************************************************)
(* String helpers of the JavaScript runtime.                               *)
(***************************************************************************)
RECURSIVE TrimStart(_)
TrimStart(s) ==
    IF s # <<>> /\ IsSpace(Head(s)) THEN TrimStart(Tail(s)) ELSE s

RECURSIVE TrimEnd(_)
TrimEnd(s) ==
    IF s # <<>> /\ IsSpace(s[Len(s)])
    THEN TrimEnd(SubSeq(s, 1, Len(s) - 1))
    ELSE s

\* String.prototype.trim
Trim(s) == TrimEnd(TrimStart(s))

\* s continues at index i (1-based) with the lower-case keyword k, ignoring case
MatchesAtCI(s, i, k) ==
    /\ i + Len(k) - 1 <= Len(s)
    /\ \A j \in 1..Len(k) : ToLowerChar(s[i + j - 1]) = k[j]

\* s continues at index i with the string p, exactly
MatchesAt(s, i, p) ==
    /\ i + Len(p) - 1 <= Len(s)
    /\ \A j \in 1..Len(p) : s[i + j - 1] = p[j]

\* \b between the characters pos and pos + 1 of s (pos in 0..Len(s))
WordBoundary(s, pos) ==
    LET a == pos >= 1 /\ IsWordChar(s[pos])
        b == pos < Len(s) /\ IsWordChar(s[pos + 1])
    IN  a # b

\* the end of the greedy \s+ that starts at index i (i - 1 when there is none)
RECURSIVE SpaceRunEnd(_, _)
SpaceRunEnd(s, i) ==
    IF i <= Len(s) /\ IsSpace(s[i]) THEN SpaceRunEnd(s, i + 1) ELSE i - 1

\* s.indexOf(p) from index i on, 1-based; 0 when p does not occur
RECURSIVE IndexOfFrom(_, _, _)
IndexOfFrom(s, p, i) ==
    IF i + Len(p) - 1 > Len(s) THEN 0
    ELSE IF MatchesAt(s, i, p) THEN i
    ELSE IndexOfFrom(s, p, i + 1)

\* s.replace(p, "") with a string pattern: the first occurrence of p is removed
ReplaceFirst(s, p) ==
    LET i == IndexOfFrom(s, p, 1)
    IN  IF i = 0 THEN s
        ELSE SubSeq(s, 1, i - 1) \o SubSeq(s, i + Len(p), Len(s))

\* s.replace(/\s+/g, " ")
RECURSIVE CollapseSpaces(_)
CollapseSpaces(s) ==
    IF s = <<>> THEN <<>>
    ELSE IF IsSpace(Head(s))
         THEN <<" ">> \o CollapseSpaces(TrimStart(s))
         ELSE <<Head(s)>> \o CollapseSpaces(Tail(s))

(***************************************************************************)
(* Command parser.                                                         *)
(***************************************************************************)
\* TOOL_PATTERNS: each entry is one /^(a|b|...)\s+/i, its alternatives in order
TOOL_PATTERNS ==
    <<<<<<"g","e","n","e","r","a","t","e","-","t","a","s","k","s">>,
         <<"g","e","n","-","t","a","s","k","s">>,
         <<"g","e","n","e","r","a","t","e">>,
         <<"g","e","n">>>>,
      <<<<"d","e","v">>,
         <<"d","e","v","e","l","o","p">>,
         <<"i","m","p","l","e","m","e","n","t">>,
         <<"c","r","e","a","t","e">>,
         <<"a","d","d">>,
         <<"b","u","i","l","d">>>>,
      <<<<"t","e","s","t">>,
         <<"t","e","s","t","i","n","g">>>>,
      <<<<"r","e","f","a","c","t","o","r">>,
         <<"r","e","f","a","c","t","o","r","i","n","g">>>>,
      <<<<"f","i","x">>,
         <<"b","u","g","f","i","x">>,
         <<"d","e","b","u","g">>>>,
      <<<<"u","p","d","a","t","e">>,
         <<"m","o","d","i","f","y">>,
         <<"c","h","a","n","g","e">>>>>>

\* SCOPE_PATTERNS: the alternatives of the one /\b(a|b|...)\b/i, in order
SCOPE_PATTERNS ==
    <<<<<<"r","a","c">>,
        <<"p","a","r","t","n","e","r","s">>,
        <<"g","l","o","b","a","l">>,
        <<"w","e","b">>,
        <<"m","o","b","i","l","e">>,
        <<"s","u","p","p","l","i","e","r","s">>,
        <<"n","o","t","i","f","i","c","a","t","i","o","n","s">>,
        <<"q","u","e","u","e","s">>>>>>

DEFAULT_TOOL == <<"d","e","v">>

DEFAULT_SCOPE == <<"g","l","o","b","a","l">>

NoMatch == [found |-> FALSE]

\* normalized.match(/^(alts)\s+/i): the first alternative, in order, that the
\* string starts with and that whitespace follows. group is match[1], all is
\* match[0] (the keyword and the whole whitespace run after it).
RECURSIVE MatchToolAlternative(_, _, _)
MatchToolAlternative(s, alts, j) ==
    IF j > Len(alts) THEN NoMatch
    ELSE IF /\ MatchesAtCI(s, 1, alts[j])
            /\ Len(s) > Len(alts[j])
            /\ IsSpace(s[Len(alts[j]) + 1])
         THEN [found |-> TRUE,
               group |-> SubSeq(s, 1, Len(alts[j])),
               all   |-> SubSeq(s, 1, SpaceRunEnd(s, Len(alts[j]) + 1))]
         ELSE MatchToolAlternative(s, alts, j + 1)

MatchToolPattern(s, alts) == MatchToolAlternative(s, alts, 1)

\* the loop over TOOL_PATTERNS from pattern p on: the first pattern that
\* matches wins
RECURSIVE ToolMatchFrom(_, _)
ToolMatchFrom(s, p) ==
    IF p > Len(TOOL_PATTERNS) THEN NoMatch
    ELSE LET m == MatchToolPattern(s, TOOL_PATTERNS[p])
         IN  IF m.found THEN m ELSE ToolMatchFrom(s, p + 1)

ToolMatch(s) == ToolMatchFrom(s, 1)


\* /\b(k)\b/i matches at index i of s
KeywordAt(s, i, k) ==
    /\ MatchesAtCI(s, i, k)
    /\ WordBoundary(s, i - 1)
    /\ WordBoundary(s, i + Len(k) - 1)

\* normalized.match(/\b(alts)\b/i): the leftmost position where an alternative
\* matches, and there the first alternative in order
RECURSIVE MatchScopeAt(_, _, _)
MatchScopeAt(s, alts, i) ==
    IF i > Len(s) THEN NoMatch
    ELSE IF \E j \in 1..Len(alts) : KeywordAt(s, i, alts[j])
         THEN LET j == CHOOSE k \in 1..Len(alts) :
                           /\ KeywordAt(s, i, alts[k])
                           /\ \A m \in 1..(k - 1) : ~KeywordAt(s, i, alts[m])
              IN  [found |-> TRUE, group |-> SubSeq(s, i, i + Len(alts[j]) - 1)]
         ELSE MatchScopeAt(s, alts, i + 1)

MatchScopePattern(s, alts) == MatchScopeAt(s, alts, 1)

\* the loop over SCOPE_PATTERNS from pattern p on
RECURSIVE ScopeMatchFrom(_, _)
ScopeMatchFrom(s, p) ==
    IF p > Len(SCOPE_PATTERNS) THEN NoMatch
    ELSE LET m == MatchScopePattern(s, SCOPE_PATTERNS[p])
         IN  IF m.found THEN m ELSE ScopeMatchFrom(s, p + 1)

ScopeMatch(s) == ScopeMatchFrom(s, 1)

\* requirements.replace(new RegExp(`\\b${scope}\\b`, "gi"), ""), from index i on
RECURSIVE RemoveScopeFrom(_, _, _)
RemoveScopeFrom(s, i, scope) ==
    IF i > Len(s) THEN <<>>
    ELSE IF KeywordAt(s, i, scope)
         THEN RemoveScopeFrom(s, i + Len(scope), scope)
         ELSE <<s[i]>> \o RemoveScopeFrom(s, i + 1, scope)

RemoveScope(s, scope) == RemoveScopeFrom(s, 1, scope)

\* ExtractTool without the toLowerCase() call
ExtractToolKeepsCase(toolMatch) ==
    IF toolMatch.found THEN toolMatch.group ELSE DEFAULT_TOOL

\* command-parser.ts 72-82: the tool is the lower-cased match[1], or the default
ExtractTool(toolMatch) ==
    IF toolMatch.found THEN ToLowerCase(toolMatch.group) ELSE DEFAULT_TOOL

\* ExtractScope without the toLowerCase() call
ExtractScopeKeepsCase(scopeMatch) ==
    IF scopeMatch.found THEN scopeMatch.group ELSE DEFAULT_SCOPE

\* command-parser.ts 85-95: the scope is the lower-cased match[1], or the default
ExtractScope(scopeMatch) ==
    IF scopeMatch.found THEN ToLowerCase(scopeMatch.group) ELSE DEFAULT_SCOPE

\* ExtractRequirements without the replace(/\s+/g, " ") step
ExtractRequirementsNoCollapse(normalized, toolMatch, scopeMatch) ==
    LET noTool  == IF toolMatch.found
                   THEN Trim(ReplaceFirst(normalized, toolMatch.all))
                   ELSE normalized
        noScope == IF scopeMatch.found
                   THEN Trim(RemoveScope(noTool, ExtractScope(scopeMatch)))
                   ELSE noTool
    IN  IF noScope = <<>> THEN normalized ELSE noScope

\* ExtractRequirements without the fallback to the whole command
ExtractRequirementsWithoutFallback(normalized, toolMatch, scopeMatch) ==
    LET noTool  == IF toolMatch.found
                   THEN Trim(ReplaceFirst(normalized, toolMatch.all))
                   ELSE normalized
        noScope == IF scopeMatch.found
                   THEN Trim(RemoveScope(noTool, ExtractScope(scopeMatch)))
                   ELSE noTool
    IN  Trim(CollapseSpaces(noScope))

\* command-parser.ts 98-118: what is left of the command without tool and scope
ExtractRequirements(normalized, toolMatch, scopeMatch) ==
    LET noTool  == IF toolMatch.found
                   THEN Trim(ReplaceFirst(normalized, toolMatch.all))
                   ELSE normalized
        noScope == IF scopeMatch.found
                   THEN Trim(RemoveScope(noTool, ExtractScope(scopeMatch)))
                   ELSE noTool
        cleaned == Trim(CollapseSpaces(noScope))
    IN  IF cleaned = <<>> THEN normalized ELSE cleaned

\* parseCommand that keeps the untrimmed command in raw, and has no early return
parseCommandRawUntrimmed(command) ==
    LET normalized == Trim(command)
        toolMatch  == ToolMatch(normalized)
        scopeMatch == ScopeMatch(normalized)
    IN  [tool         |-> ExtractTool(toolMatch),
         scope        |-> ExtractScope(scopeMatch),
         requirements |-> ExtractRequirements(normalized, toolMatch, scopeMatch),
         raw          |-> command]

\* a parser that keeps only the requirements as the raw command
parseCommandRawRequirements(command) ==
    LET normalized == Trim(command)
        toolMatch  == ToolMatch(normalized)
        scopeMatch == ScopeMatch(normalized)
    IN  [tool         |-> IF normalized = <<>> THEN DEFAULT_TOOL
                          ELSE ExtractTool(toolMatch),
         scope        |-> IF normalized = <<>> THEN DEFAULT_SCOPE
                          ELSE ExtractScope(scopeMatch),
         requirements |-> IF normalized = <<>> THEN <<>>
                          ELSE ExtractRequirements(normalized, toolMatch, scopeMatch),
         raw          |-> IF normalized = <<>> THEN <<>>
                          ELSE ExtractRequirements(normalized, toolMatch, scopeMatch)]

\* parseCommand(command)
parseCommand(command) ==
    LET normalized == Trim(command)
    IN  IF normalized = <<>>
        THEN [tool         |-> DEFAULT_TOOL,
              scope        |-> DEFAULT_SCOPE,
              requirements |-> <<>>,
              raw          |-> normalized]
        ELSE LET toolMatch  == ToolMatch(normalized)
                 scopeMatch == ScopeMatch(normalized)
             IN  [tool         |-> ExtractTool(toolMatch),
                  scope        |-> ExtractScope(scopeMatch),
                  requirements |-> ExtractRequirements(normalized,
                                       toolMatch, scopeMatch),
                  raw          |-> normalized]

(***************************************************************************)
(* The commands the parser is run on: up to MaxWords words, joined by      *)
(* separators, with optional whitespace around them.                       *)
(***************************************************************************)
MaxWords == 3

Words == {<<"T","e","s","t">>, <<"r","a","c">>, <<"W","E","B">>, <<"u","i">>}

Separators == {<<" ">>, <<" ","\t">>, <<"-">>, <<>>}

RECURSIVE Phrases(_)
Phrases(n) ==
    IF n = 0 THEN {<<>>}
    ELSE IF n = 1 THEN Words
    ELSE {p \o sep \o w : p \in Phrases(n - 1), sep \in Separators, w \in Words}

Commands ==
    LET phrases == UNION {Phrases(n) : n \in 0..MaxWords}
    IN  phrases \cup {<<" ">> \o p \o <<"\t">> : p \in phrases}

(***************************************************************************)
(* Errors and optional values of the retrieval engines.                    *)
(* An Error is its message, a sequence of pieces. null is <<>> and a       *)
(* non-null value v is <<v>>.                                              *)
(***************************************************************************)
Null == <<>>

Some(v) == <<v>>

Error(message) == [message |-> message]

DigitChars == <<"0","1","2","3","4","5","6","7","8","9">>

\* String(n) for a natural number n, one piece per digit
RECURSIVE NatToString(_)
NatToString(n) ==
    IF n < 10 THEN <<DigitChars[n + 1]>>
    ELSE NatToString(n \div 10) \o <<DigitChars[(n % 10) + 1]>>

\* pieces joined with a separator: Array.prototype.join
RECURSIVE Join(_, _)
Join(texts, sep) ==
    IF texts = <<>> THEN <<>>
    ELSE IF Len(texts) = 1 THEN texts[1]
    ELSE texts[1] \o sep \o Join(Tail(texts), sep)

(***************************************************************************)
(* process.env and the lazily built clients.                               *)
(* A variable is "unset", "empty" (""), "blank" (whitespace only),         *)
(* "malformed" (set, but no URL) or "ok".                                   *)
(***************************************************************************)
\* !value
IsFalsy(v) == v \in {"unset", "empty"}

\* !value || value.trim().length === 0
IsMissing(v) == v \in {"unset", "empty", "blank"}

\* a getSupabaseClient() that constructs a client on every call
getSupabaseClientWithoutCache(cached, e) ==
    IF IsMissing(e.SUPABASE_URL)
    THEN [ok |-> FALSE, built |-> FALSE, error |-> Error(<<"Missing SUPABASE_URL environment variable. Please set it in your .env file or environment.">>)]
    ELSE IF IsMissing(e.SUPABASE_SERVICE_ROLE_KEY)
    THEN [ok |-> FALSE, built |-> FALSE, error |-> Error(<<"Missing SUPABASE_SERVICE_ROLE_KEY environment variable. Please set it in your .env file or environment.">>)]
    ELSE IF e.SUPABASE_URL = "malformed"
    THEN [ok |-> FALSE, built |-> FALSE, error |-> Error(<<"Invalid SUPABASE_URL format: \"", "malformed", "\". Must be a valid HTTP or HTTPS URL (e.g., https://your-project.supabase.co)">>)]
    ELSE [ok |-> TRUE, built |-> TRUE]

\* context-searcher getSupabaseClient(): the error it throws, or none; built
\* tells whether createClient was called. The client is cached exactly when
\* nothing is thrown.
getSupabaseClient(cached, e) ==
    IF cached THEN [ok |-> TRUE, built |-> FALSE]
    ELSE IF IsMissing(e.SUPABASE_URL)
    THEN [ok |-> FALSE, built |-> FALSE, error |-> Error(<<"Missing SUPABASE_URL environment variable. Please set it in your .env file or environment.">>)]
    ELSE IF IsMissing(e.SUPABASE_SERVICE_ROLE_KEY)
    THEN [ok |-> FALSE, built |-> FALSE, error |-> Error(<<"Missing SUPABASE_SERVICE_ROLE_KEY environment variable. Please set it in your .env file or environment.">>)]
    ELSE IF e.SUPABASE_URL = "malformed"
    THEN [ok |-> FALSE, built |-> FALSE, error |-> Error(<<"Invalid SUPABASE_URL format: \"", "malformed", "\". Must be a valid HTTP or HTTPS URL (e.g., https://your-project.supabase.co)">>)]
    ELSE [ok |-> TRUE, built |-> TRUE]

\* gemini-client getGenAI(); built tells whether new GoogleGenerativeAI was
\* called
getGenAI(cached, e) ==
    IF cached THEN [ok |-> TRUE, built |-> FALSE]
    ELSE IF IsFalsy(e.GEMINI_API_KEY)
    THEN [ok |-> FALSE, built |-> FALSE, error |-> Error(<<"Missing GEMINI_API_KEY environment variable">>)]
    ELSE [ok |-> TRUE, built |-> TRUE]

\* the constructor calls of a call r of getSupabaseClient() or getGenAI()
Constructions(r) == IF r.built THEN 1 ELSE 0

\* the clients that n calls of getGenAI(), made one after the other, construct
RECURSIVE GenAIBuilds(_, _, _)
GenAIBuilds(n, cached, e) ==
    IF n = 0 THEN 0
    ELSE Constructions(getGenAI(cached, e))
             + GenAIBuilds(n - 1, cached \/ getGenAI(cached, e).ok, e)

(***************************************************************************)
(* gemini-client generateEmbedding.                                        *)
(***************************************************************************)
EMBEDDING_DIMENSION == 768

\* the pieces of a text that hold whitespace only
BlankPieces == {"", " "}

\* !text || text.trim().length === 0
IsBlankText(text) == \A i \in 1..Len(text) : text[i] \in BlankPieces

\* the catch block of generateEmbedding
WrapEmbeddingError(err) ==
    Error(<<"Failed to generate embedding: ">> \o err.message)

\* generateEmbedding up to its await: the embedContent call is issued, or
\* the promise is rejected at once
generateEmbeddingCall(text, cached, e) ==
    IF IsBlankText(text)
    THEN [issued |-> FALSE, error |-> Error(<<"Text cannot be empty">>)]
    ELSE IF ~getGenAI(cached, e).ok
    THEN [issued |-> FALSE, error |-> WrapEmbeddingError(getGenAI(cached, e).error)]
    ELSE [issued |-> TRUE]

\* generateEmbedding after its await. The response either threw, or holds
\* result.embedding.values, of which only the length matters.
generateEmbeddingResult(response) ==
    IF response.threw
    THEN [ok |-> FALSE, error |-> WrapEmbeddingError(response.error)]
    ELSE IF response.values = 0
    THEN [ok |-> FALSE,
          error |-> WrapEmbeddingError(Error(<<"Empty embedding returned from Gemini">>))]
    ELSE IF response.values # EMBEDDING_DIMENSION
    THEN [ok |-> FALSE,
          error |-> WrapEmbeddingError(Error(
                        <<"Invalid embedding dimension: expected ">>
                            \o NatToString(EMBEDDING_DIMENSION) \o <<", got ">>
                            \o NatToString(response.values)))]
    ELSE [ok |-> TRUE]

(***************************************************************************)
(* context-searcher searchSimilarContexts.                                 *)
(***************************************************************************)
\* row.distance || 0, in units of 0.00001; a row of the backend may lack it
DistanceOrZero(row) == IF "distance" \in DOMAIN row THEN row.distance ELSE 0

\* the map over (data || []) of searchSimilarContexts
MapRow(row) ==
    [id       |-> row.id,
     app      |-> row.app,
     scope    |-> row.scope,
     title    |-> row.title,
     path     |-> row.path,
     content  |-> row.content,
     distance |-> DistanceOrZero(row)]

\* searchSimilarContexts after its await on client.rpc
searchSimilarContextsResult(response) ==
    IF response.error # Null
    THEN [ok |-> FALSE,
          error |-> Error(<<"Failed to search contexts: ">>
                              \o response.error[1].message
                              \o <<". Make sure the RPC function 'match_dev_contexts' exists in Supabase.">>)]
    ELSE [ok |-> TRUE,
          results |-> IF response.data = Null THEN <<>>
                      ELSE [i \in 1..Len(response.data[1]) |-> MapRow(response.data[1][i])]]

(***************************************************************************)
(* context-searcher validateScope and getActiveScopes.                     *)
(***************************************************************************)
\* a validateScope that accepts every scope
validateScopeAcceptsAll(response) == TRUE

\* validateScope after its await on the dev_apps query
validateScope(response) == ~(response.error # Null \/ response.data = Null)

\* getActiveScopes after its await on the dev_apps query
getActiveScopes(response) ==
    IF response.error # Null \/ response.data = Null
    THEN <<>>
    ELSE [i \in 1..Len(response.data[1]) |-> response.data[1][i].key]

\* the error searchContext throws for a scope that did not validate
InvalidScopeError(scope, availableScopes) ==
    Error(<<"Invalid scope: \"", scope, "\". Available scopes: ">>
              \o Join([i \in 1..Len(availableScopes) |-> <<availableScopes[i]>>],
                      <<", ">>))

(***************************************************************************)
(* ContextSearcher.searchContext: queries, fan-in and combination.         *)
(***************************************************************************)
AspectNames == {"technology", "folderStructure", "conventions", "examples"}

topK == 2

\* a queries array that leaves the examples query out when there is no
\* requirement text to search for
QueriesSkippingEmptyRequirements(requirements, scope, tool) ==
    <<[query  |-> <<scope, " technology stack framework libraries dependencies">>,
       apps   |-> <<scope, "global">>,
       scopes |-> <<"architecture", "introduction">>,
       topK   |-> topK,
       aspect |-> "technology"],
      [query  |-> <<scope, " folder structure directory organization file layout">>,
       apps   |-> <<scope, "global">>,
       scopes |-> <<"architecture", "routing">>,
       topK   |-> topK,
       aspect |-> "folderStructure"],
      [query  |-> <<scope, " code conventions style guide patterns best practices">>,
       apps   |-> <<scope, "global">>,
       scopes |-> <<"style-guide", "architecture">>,
       topK   |-> topK,
       aspect |-> "conventions"]>>
      \o (IF requirements = "" THEN <<>>
          ELSE <<[query  |-> <<tool, " ", requirements, " example implementation similar">>,
                  apps   |-> <<scope, "global">>,
                  scopes |-> <<"tasks-examples", "core">>,
                  topK   |-> topK,
                  aspect |-> "examples"]>>)

\* the queries array of searchContext
Queries(requirements, scope, tool) ==
    <<[query  |-> <<scope, " technology stack framework libraries dependencies">>,
       apps   |-> <<scope, "global">>,
       scopes |-> <<"architecture", "introduction">>,
       topK   |-> topK,
       aspect |-> "technology"],
      [query  |-> <<scope, " folder structure directory organization file layout">>,
       apps   |-> <<scope, "global">>,
       scopes |-> <<"architecture", "routing">>,
       topK   |-> topK,
       aspect |-> "folderStructure"],
      [query  |-> <<scope, " code conventions style guide patterns best practices">>,
       apps   |-> <<scope, "global">>,
       scopes |-> <<"style-guide", "architecture">>,
       topK   |-> topK,
       aspect |-> "conventions"],
      [query  |-> <<tool, " ", requirements, " example implementation similar">>,
       apps   |-> <<scope, "global">>,
       scopes |-> <<"tasks-examples", "core">>,
       topK   |-> topK,
       aspect |-> "examples"]>>

\* a join that waits for every promise and never rejects
PromiseAllSettled(st, names) ==
    IF \A a \in names : st[a] \in {"done", "failed"} THEN "fulfilled" ELSE "pending"

\* Promise.all over the promises of the queries, whose positions are st:
\* rejected as soon as one is rejected, fulfilled when all are fulfilled
PromiseAll(st, names) ==
    IF \E a \in names : st[a] = "failed" THEN "rejected"
    ELSE IF \A a \in names : st[a] = "done" THEN "fulfilled"
    ELSE "pending"

\* distance.toFixed(4) for a distance in units of 0.00001
toFixed4(d) ==
    LET n == (d + 5) \div 10
    IN  NatToString(n \div 10000)
            \o <<".",
                 DigitChars[((n \div 1000) % 10) + 1],
                 DigitChars[((n \div 100) % 10) + 1],
                 DigitChars[((n \div 10) % 10) + 1],
                 DigitChars[(n % 10) + 1]>>

\* the text combineResults makes of one SearchResult
FormatResult(r) ==
    <<"--- ", r.title, " (", r.app, "/", r.scope, ", distance: ">>
        \o toFixed4(r.distance) \o <<") ---\n", r.content>>

\* ContextSearcher.combineResults
combineResults(results) ==
    IF Len(results) = 0 THEN <<>>
    ELSE Join([i \in 1..Len(results) |-> FormatResult(results[i])], <<"\n\n">>)

\* a lookup that takes the results of some query that was made, whatever
\* its aspect
ResultsOfAnyAspect(found, results, aspect) ==
    IF found # {} THEN results[CHOOSE b \in found : b # aspect \/ found = {aspect}]
    ELSE <<>>

\* searchResults.find((r) => r.aspect === aspect)?.results || []
ResultsOf(found, results, aspect) ==
    IF aspect \in found THEN results[aspect] ELSE <<>>

\* the ragContext searchContext builds from the search results of the
\* queries that were made
BuildRagContext(found, results) ==
    LET technology      == combineResults(ResultsOf(found, results, "technology"))
        folderStructure == combineResults(ResultsOf(found, results, "folderStructure"))
    IN  [technology      |-> technology,
         folderStructure |-> folderStructure,
         conventions     |-> combineResults(ResultsOf(found, results, "conventions")),
         examples        |-> combineResults(ResultsOf(found, results, "examples")),
         architecture    |-> technology \o <<"\n\n">> \o folderStructure]

(***************************************************************************)
(* TemplateSearcher.searchTemplates: queries and combination.              *)
(***************************************************************************)
TemplateNames == {"prdTemplate", "tasksTemplate", "subtasksTemplate"}

\* the queries array of searchTemplates
TemplateQueries ==
    <<[query    |-> <<"create-prd product requirements document template guide">>,
       scopes   |-> <<"prd-template">>,
       topK     |-> 1,
       template |-> "prdTemplate"],
      [query    |-> <<"generate-tasks task list template guide">>,
       scopes   |-> <<"tasks-template">>,
       topK     |-> 1,
       template |-> "tasksTemplate"],
      [query    |-> <<"implement-task subtask implementation template guide">>,
       scopes   |-> <<"subtasks-template">>,
       topK     |-> 1,
       template |-> "subtasksTemplate"]>>

TemplateQueryOf(t) ==
    TemplateQueries[CHOOSE i \in 1..Len(TemplateQueries) : TemplateQueries[i].template = t]

\* the arguments of the searchSimilarContexts call of a template lookup
TemplateSearchCall(t) ==
    [apps   |-> <<"global">>,
     scopes |-> TemplateQueryOf(t).scopes,
     topK   |-> TemplateQueryOf(t).topK,
     aspect |-> t]

\* the templateContent of one lookup
TemplateContentOf(results) ==
    IF Len(results) > 0
    THEN Join([i \in 1..Len(results) |->
                  <<"--- ", results[i].title, " (", results[i].app, "/",
                    results[i].scope, ") ---\n", results[i].content>>],
              <<"\n\n">>)
    ELSE <<>>

TemplateFallbacks ==
    [prdTemplate      |-> <<"# PRD Template\n\n*Template not found in embeddings. Using fallback.*">>,
     tasksTemplate    |-> <<"# Tasks Template\n\n*Template not found in embeddings. Using fallback.*">>,
     subtasksTemplate |-> <<"# Subtasks Template\n\n*Template not found in embeddings. Using fallback.*">>]

\* a templateContext that keeps the empty content of a lookup without rows
BuildTemplateContextWithoutFallback(contents) ==
    [t \in TemplateNames |-> contents[t]]

\* the templateContext searchTemplates builds: result?.content || fallback
BuildTemplateContext(contents) ==
    [t \in TemplateNames |->
        IF contents[t] # <<>> THEN contents[t] ELSE TemplateFallbacks[t]]

(***************************************************************************)
(* CracRulesDetector.detectRules.                                          *)
(***************************************************************************)
\* enum CracRuleType
TESTING == "testing"

STRUCTURE == "structure"

ENDPOINTS == "endpoints"

CODE_STYLE == "code_style"

ALL == "all"

\* CracRulesDetector.patterns: type and keywords, in the order of the array
patterns ==
    <<[type |-> TESTING,
       keywords |->
         <<<<"t", "e", "s", "t">>,
           <<"t", "e", "s", "t", "i", "n", "g">>,
           <<"t", "e", "s", "t", "s">>,
           <<"s", "p", "e", "c">>,
           <<"s", "p", "e", "c", "s">>,
           <<"j", "e", "s", "t">>,
           <<"r", "t", "l">>,
           <<"r", "e", "a", "c", "t", " ", "t", "e", "s", "t", "i", "n", "g", " ", "l", "i", "b", "r", "a", "r", "y">>,
           <<"u", "n", "i", "t", " ", "t", "e", "s", "t">>,
           <<"i", "n", "t", "e", "g", "r", "a", "t", "i", "o", "n", " ", "t", "e", "s", "t">>,
           <<"e", "2", "e", " ", "t", "e", "s", "t">>,
           <<"t", "e", "s", "t", " ", "f", "i", "l", "e">>,
           <<"t", "e", "s", "t", " ", "s", "u", "i", "t", "e">>,
           <<"d", "e", "s", "c", "r", "i", "b", "e">>,
           <<"i", "t", "(">>,
           <<"t", "e", "s", "t", "(">>,
           <<"e", "x", "p", "e", "c", "t">>,
           <<"m", "o", "c", "k">>,
           <<"s", "n", "a", "p", "s", "h", "o", "t">>>>],
      [type |-> STRUCTURE,
       keywords |->
         <<<<"s", "t", "r", "u", "c", "t", "u", "r", "e">>,
           <<"f", "o", "l", "d", "e", "r">>,
           <<"d", "i", "r", "e", "c", "t", "o", "r", "y">>,
           <<"o", "r", "g", "a", "n", "i", "z", "e">>,
           <<"a", "r", "c", "h", "i", "t", "e", "c", "t", "u", "r", "e">>,
           <<"f", "e", "a", "t", "u", "r", "e">>,
           <<"m", "o", "d", "u", "l", "e">>,
           <<"c", "r", "e", "a", "t", "e", " ", "f", "e", "a", "t", "u", "r", "e">>,
           <<"n", "e", "w", " ", "f", "e", "a", "t", "u", "r", "e">>,
           <<"f", "o", "l", "d", "e", "r", " ", "s", "t", "r", "u", "c", "t", "u", "r", "e">>,
           <<"f", "i", "l", "e", " ", "s", "t", "r", "u", "c", "t", "u", "r", "e">>,
           <<"d", "i", "r", "e", "c", "t", "o", "r", "y", " ", "s", "t", "r", "u", "c", "t", "u", "r", "e">>,
           <<"o", "r", "g", "a", "n", "i", "z", "e", " ", "c", "o", "d", "e">>,
           <<"s", "c", "r", "e", "a", "m", "i", "n", "g", " ", "a", "r", "c", "h", "i", "t", "e", "c", "t", "u", "r", "e">>>>],
      [type |-> ENDPOINTS,
       keywords |->
         <<<<"e", "n", "d", "p", "o", "i", "n", "t">>,
           <<"e", "n", "d", "p", "o", "i", "n", "t", "s">>,
           <<"a", "p", "i">>,
           <<"s", "e", "r", "v", "i", "c", "e">>,
           <<"r", "e", "d", "u", "x", " ", "a", "c", "t", "i", "o", "n">>,
           <<"c", "r", "e", "a", "t", "e", " ", "s", "e", "r", "v", "i", "c", "e">>,
           <<"a", "p", "i", " ", "s", "e", "r", "v", "i", "c", "e">>,
           <<"s", "e", "r", "v", "i", "c", "e", " ", "f", "i", "l", "e">>,
           <<"e", "n", "d", "p", "o", "i", "n", "t", "s", ".", "t", "s">>,
           <<"s", "e", "r", "v", "i", "c", "e", ".", "t", "s">>,
           <<"a", "c", "t", "i", "o", "n", "s", ".", "t", "s">>,
           <<"s", "c", "r", "e", "a", "m", "i", "n", "g", " ", "a", "r", "c", "h", "i", "t", "e", "c", "t", "u", "r", "e">>,
           <<"m", "o", "d", "u", "l", "e", " ", "s", "t", "r", "u", "c", "t", "u", "r", "e">>,
           <<"e", "n", "t", "i", "t", "i", "e", "s">>,
           <<"s", "t", "a", "t", "e", "/", "a", "c", "t", "i", "o", "n", "s">>>>],
      [type |-> CODE_STYLE,
       keywords |->
         <<<<"c", "o", "d", "e", " ", "s", "t", "y", "l", "e">>,
           <<"c", "o", "n", "v", "e", "n", "t", "i", "o", "n">>,
           <<"c", "o", "n", "v", "e", "n", "t", "i", "o", "n", "s">>,
           <<"n", "a", "m", "i", "n", "g">>,
           <<"c", "o", "m", "p", "o", "n", "e", "n", "t">>,
           <<"i", "m", "p", "o", "r", "t">>,
           <<"e", "x", "p", "o", "r", "t">>,
           <<"p", "a", "s", "c", "a", "l", "c", "a", "s", "e">>,
           <<"c", "a", "m", "e", "l", "c", "a", "s", "e">>,
           <<"c", "o", "d", "e", " ", "s", "t", "y", "l", "e">>,
           <<"c", "o", "d", "i", "n", "g", " ", "s", "t", "a", "n", "d", "a", "r", "d", "s">>,
           <<"s", "t", "y", "l", "e", " ", "g", "u", "i", "d", "e">>>>]>>

\* normalizedContext.includes(keyword)
Includes(s, keyword) == IndexOfFrom(s, keyword, 1) # 0

\* the score of a pattern: one for each entry of its keywords that the
\* context includes
RECURSIVE ScoreFrom(_, _, _)
ScoreFrom(s, keywords, k) ==
    IF k > Len(keywords) THEN 0
    ELSE (IF Includes(s, keywords[k]) THEN 1 ELSE 0) + ScoreFrom(s, keywords, k + 1)

Score(s, pattern) == ScoreFrom(s, pattern.keywords, 1)

\* the scores of all the patterns, in the order of the array
Scores(s) ==
    [i \in 1..Len(patterns) |-> [type |-> patterns[i].type, score |-> Score(s, patterns[i])]]

\* a matches map that also keeps the patterns that scored nothing
MatchesWithZeroScores(s) == Scores(s)

\* the entries of the matches map, in insertion order: score > 0 only
Matches(s) == SelectSeq(Scores(s), LAMBDA e : e.score > 0)

\* e placed behind every entry that does not score less than it
RECURSIVE InsertByScore(_, _)
InsertByScore(sorted, e) ==
    IF sorted = <<>> THEN <<e>>
    ELSE IF Head(sorted).score >= e.score
         THEN <<Head(sorted)>> \o InsertByScore(Tail(sorted), e)
         ELSE <<e>> \o sorted

\* entries in their given order, not sorted
KeepInsertionOrder(entries) == entries

\* Array.prototype.sort((a, b) => b[1] - a[1]): descending score, stable
RECURSIVE SortByScore(_)
SortByScore(entries) ==
    IF entries = <<>> THEN <<>>
    ELSE InsertByScore(SortByScore(SubSeq(entries, 1, Len(entries) - 1)),
                       entries[Len(entries)])

\* sorted.filter((_, index) => index < 2 || score >= 2), from position i on
RECURSIVE TopMatchesFrom(_, _)
TopMatchesFrom(sorted, i) ==
    IF i > Len(sorted) THEN <<>>
    ELSE IF i <= 2 \/ sorted[i].score >= 2
         THEN <<sorted[i]>> \o TopMatchesFrom(sorted, i + 1)
         ELSE TopMatchesFrom(sorted, i + 1)

TopMatches(sorted) == TopMatchesFrom(sorted, 1)

\* detectRules(context?): context is Null (undefined) or Some(string)
detectRules(context) ==
    IF context = Null \/ Trim(context[1]) = <<>>
    THEN <<ALL>>
    ELSE LET normalizedContext == ToLowerCase(context[1])
             matches == Matches(normalizedContext)
         IN  IF Len(matches) = 0
             THEN <<ALL>>
             ELSE LET topMatches == TopMatches(SortByScore(matches))
                  IN  IF Len(topMatches) > 0
                      THEN [i \in 1..Len(topMatches) |-> topMatches[i].type]
                      ELSE <<ALL>>

(***************************************************************************)
(* The contexts the detector is run on: undefined, blank strings, a        *)
(* sentence, and up to MaxTerms terms joined by spaces.                    *)
(***************************************************************************)
MaxTerms == 3

DetectorWords ==
    {<<"J", "e", "s", "t">>,
     <<"u", "n", "i", "t", " ", "t", "e", "s", "t", "s">>,
     <<"F", "o", "l", "d", "e", "r", " ", "s", "t", "r", "u", "c", "t", "u", "r", "e">>,
     <<"A", "P", "I">>,
     <<"e", "n", "d", "p", "o", "i", "n", "t", "s", ".", "t", "s">>,
     <<"c", "o", "d", "e", " ", "s", "t", "y", "l", "e">>,
     <<"c", "o", "m", "p", "o", "n", "e", "n", "t">>,
     <<"b", "o", "o", "k", "i", "n", "g">>}

RECURSIVE Sentences(_)
Sentences(n) ==
    IF n = 1 THEN DetectorWords
    ELSE {p \o <<" ">> \o w : p \in Sentences(n - 1), w \in DetectorWords}

JestSentence ==
    <<"w","r","i","t","e"," ","j","e","s","t"," ","u","n","i","t"," ",
      "t","e","s","t","s"," ","f","o","r"," ","t","h","e"," ",
      "b","o","o","k","i","n","g"," ","c","o","m","p","o","n","e","n","t">>

RuleContexts ==
    {Null, Some(<<>>), Some(<<" ">>), Some(<<" ", "\t", "\n">>), Some(JestSentence)}
        \cup {Some(s) : s \in UNION {Sentences(n) : n \in 1..MaxTerms}}

(***************************************************************************)
(* Texts made of pieces.                                                   *)
(***************************************************************************)
\* a string of length 0: what `if (text)` takes for false
IsEmptyText(text) == \A i \in 1..Len(text) : text[i] = ""

\* String.prototype.toUpperCase on the scope of a ParsedCommand
toUpperCase(scope) ==
    CASE scope = "rac" -> "RAC"
      [] scope = "partners" -> "PARTNERS"
      [] scope = "global" -> "GLOBAL"
      [] scope = "web" -> "WEB"
      [] scope = "mobile" -> "MOBILE"
      [] scope = "suppliers" -> "SUPPLIERS"
      [] scope = "notifications" -> "NOTIFICATIONS"
      [] scope = "queues" -> "QUEUES"


\* hasX ? "Found" : "Not found", with the check mark and the cross of the source
FoundMark(has) == IF has THEN "[x] Found" ELSE "[ ] Not found"
(***************************************************************************)
(* PromptBuilder. A prompt is a sequence of pieces: the literals appended  *)
(* to it and the values interpolated into them. Backquotes and characters  *)
(* outside ASCII in the literals are written with ASCII stand-ins.         *)
(***************************************************************************)
\* the opening of the system prompt
RoleStatement(command) ==
    <<"You are an expert Full-Stack Engineer working on the ",
      toUpperCase(command.scope),
      " application in the CRAC (Centauro Rent a Car) monorepo.\n\n">>

\* the mandatory rules block
MandatoryRulesBlock(rulesContent) ==
    <<"## CRAC Monorepo Rules and Conventions\n\n",
      "*The following rules and conventions are MANDATORY and must be followed for all development tasks:*\n\n">>
        \o rulesContent
        \o <<"\n\n",
      "---\n\n">>

\* metadata about the context
ContextInformation(command) ==
    <<"**Context Information:**\n",
      "- Application: ",
      command.scope,
      "\n",
      "- Task Type: ",
      command.tool,
      "\n",
      "- Monorepo: CRAC Frontend Monorepo (pnpm workspaces + Turborepo)\n\n">>

\* monorepo structure context
MonorepoStructure ==
    <<"## Monorepo Structure\n\n",
      "This is a monorepo managed by pnpm workspaces and Turborepo:\n",
      "- **apps/**: Standalone applications (web, rac, partners, mobile, notifications, suppliers, queues)\n",
      "- **packages/**: Shared packages (@crac/core, @crac/design-system, @crac/components, etc.)\n",
      "- **config/**: Shared configurations (ESLint, TypeScript, Prettier)\n\n">>

\* technical context, retrieved
RetrievedTechnology(context) ==
    <<"## Technical Context\n\n">>
        \o context.technology
        \o <<"\n\n">>

\* technical context, fallback
FallbackTechnology ==
    <<"## Technical Context\n\n",
      "Core technologies used in the monorepo:\n",
      "- Language: TypeScript\n",
      "- UI Framework: React\n",
      "- State Management: Redux Toolkit (primarily)\n",
      "- Styling: Tailwind CSS\n",
      "- Build Tools: Vite (for most apps) or Next.js (for web app)\n",
      "- Testing: Jest + React Testing Library\n\n">>

\* project structure, retrieved
RetrievedStructure(context) ==
    <<"## Project Structure\n\n">>
        \o context.folderStructure
        \o <<"\n\n">>

\* project structure, fallback
FallbackStructure ==
    <<"## Project Structure\n\n",
      "The application follows a **feature-driven architecture** (Screaming Architecture):\n\n",
      "'''\n",
      "src/features/<feature>/\n",
      "|-- pages/          # Top-level components (views/screens)\n",
      "|-- components/     # Reusable UI components\n",
      "|-- hooks/          # Custom React hooks\n",
      "|-- state/          # Redux slices (reducers, actions, selectors)\n",
      "|-- types/          # TypeScript types\n",
      "|-- utils/          # Utility functions\n",
      "+-- routes.ts       # Route definitions\n",
      "'''\n\n">>

\* code conventions, retrieved
RetrievedConventions(context) ==
    <<"## Code Conventions\n\n">>
        \o context.conventions
        \o <<"\n\n">>

\* code conventions, fallback
FallbackConventions ==
    <<"## Code Conventions\n\n",
      "**Naming:**\n",
      "- PascalCase: Components, interfaces, types, enums\n",
      "- camelCase: Variables, functions, objects, folders, non-component files\n",
      "- Component files: PascalCase (e.g., BookingList.tsx)\n\n",
      "**Components:**\n",
      "- Use functional components with arrow functions\n",
      "- Use named exports (not default exports)\n",
      "- Define props using interfaces\n",
      "- Use fragments (<>) instead of div wrappers\n\n",
      "**Imports:**\n",
      "- Use path aliases: '~/*' for app code, '@crac/*' for shared packages\n",
      "- Import order: React -> External libs -> @crac/* -> ~/* -> Relative\n",
      "- Use 'type' imports for TypeScript types\n\n",
      "**Shared Packages:**\n",
      "- '@crac/core': Business logic, types, services (MUST use for shared logic)\n",
      "- '@crac/design-system': UI components (PREFERRED for new components)\n",
      "- '@crac/components': Legacy components (only for legacy code)\n\n">>

\* development principles
DevelopmentPrinciples ==
    <<"## Development Principles\n\n",
      "You will receive a specific development task. Follow these principles:\n\n",
      "**Code Quality:**\n",
      "- Apply SOLID principles and Clean Code practices\n",
      "- Write production-ready, maintainable code\n",
      "- Include proper TypeScript types (no 'any' unless absolutely necessary)\n",
      "- Use custom hooks to separate presentation logic from business logic\n\n",
      "**Structure & Organization:**\n",
      "- Follow the feature-driven architecture structure\n",
      "- Place shared business logic in '@crac/core' package\n",
      "- Use components from '@crac/design-system' by default\n",
      "- Follow the established folder structure and conventions\n\n",
      "**Testing:**\n",
      "- Write tests using Jest + React Testing Library\n",
      "- Co-locate test files with source files ('*.test.ts', '*.test.tsx')\n",
      "- Use '@crac/test-utils' for custom rendering\n",
      "- Use '@crac/fake-api' for mock data when applicable\n\n",
      "**Styling:**\n",
      "- Use Tailwind CSS utility classes (prefer over custom CSS)\n",
      "- Use design system tokens when available\n",
      "- Ensure responsive design (mobile-first approach)\n",
      "- Organize classes by type (layout, spacing, colors, etc.)\n\n",
      "**Git & Workflow:**\n",
      "- Branch naming: '<app>-<type>-<description>' (e.g., 'rac-feature-booking-calendar')\n",
      "- Commits: Follow Conventional Commits ('feat(scope): description')\n",
      "- Base branch: 'develop' (not 'main')\n\n">>

\* the task of the user prompt
TaskSection(command) ==
    <<"## Task\n\n",
      command.tool,
      " ",
      command.requirements,
      "\n\n">>

\* similar examples
SimilarExamples(context) ==
    <<"## Similar Examples\n\n",
      "The following examples show similar implementations in the CRAC monorepo. ",
      "Use them as reference, paying attention to:\n",
      "- Structure and organization patterns\n",
      "- Use of shared packages (@crac/core, @crac/design-system)\n",
      "- Component patterns and conventions\n",
      "- Testing approaches\n\n">>
        \o context.examples
        \o <<"\n\n">>

\* specific instructions
ImplementationInstructions ==
    <<"## Implementation Instructions\n\n",
      "**IMPORTANT: Before implementing, you MUST call the 'get_crac_rules' tool with the task context to get the specific CRAC conventions you need to follow.**\n\n",
      "Please implement this task following:\n\n",
      "1. **Get CRAC Rules FIRST**: Call 'get_crac_rules' tool with the task description to get relevant conventions\n",
      "2. **Monorepo conventions**: Use the structure and patterns shown in the context above\n",
      "3. **Shared packages**: Leverage '@crac/core' for business logic and '@crac/design-system' for UI components\n",
      "4. **Code style**: Follow the naming conventions, import order, and component patterns documented\n",
      "5. **Testing**: Include appropriate tests using Jest + React Testing Library\n",
      "6. **TypeScript**: Use proper types, avoid 'any', use type imports when applicable\n",
      "7. **Responsive design**: Ensure mobile-first approach with Tailwind CSS\n\n",
      "Pay attention to the metadata (app, scope, distance) in the examples to understand context relevance. ",
      "Lower distance values indicate more relevant examples.\n">>

\* the technical context block: retrieved content, or the fallback
TechnicalContext(context) ==
    IF ~IsEmptyText(context.technology)
    THEN RetrievedTechnology(context)
    ELSE FallbackTechnology

\* the project structure block
ProjectStructure(context) ==
    IF ~IsEmptyText(context.folderStructure)
    THEN RetrievedStructure(context)
    ELSE FallbackStructure

\* a conventions block that leaves the section out when nothing was retrieved
CodeConventionsWithoutFallback(context) ==
    IF ~IsEmptyText(context.conventions)
    THEN RetrievedConventions(context)
    ELSE <<>>

\* the code conventions block
CodeConventions(context) ==
    IF ~IsEmptyText(context.conventions)
    THEN RetrievedConventions(context)
    ELSE FallbackConventions

\* a rules part that lets the failure of the fetch escape
RulesPartEscalating(fetch) ==
    IF ~fetch.called THEN [ok |-> TRUE, text |-> <<>>]
    ELSE IF fetch.threw THEN [ok |-> FALSE, error |-> fetch.error]
    ELSE IF ~IsBlankText(fetch.content)
    THEN [ok |-> TRUE, text |-> MandatoryRulesBlock(fetch.content)]
    ELSE [ok |-> TRUE, text |-> <<>>]

\* what buildSystemPrompt appends for the nested rules fetch. fetch tells
\* whether searchRules was called and how it ended; the catch block only
\* logs a warning.
RulesPart(fetch) ==
    IF ~fetch.called THEN [ok |-> TRUE, text |-> <<>>]
    ELSE IF fetch.threw THEN [ok |-> TRUE, text |-> <<>>]
    ELSE IF ~IsBlankText(fetch.content)
    THEN [ok |-> TRUE, text |-> MandatoryRulesBlock(fetch.content)]
    ELSE [ok |-> TRUE, text |-> <<>>]

\* buildSystemPrompt, given how the nested rules fetch ended
buildSystemPrompt(command, context, fetch) ==
    RoleStatement(command)
        \o RulesPart(fetch).text
        \o ContextInformation(command)
        \o MonorepoStructure
        \o TechnicalContext(context)
        \o ProjectStructure(context)
        \o CodeConventions(context)
        \o DevelopmentPrinciples

\* a user prompt that shows the examples section whatever the field holds
buildUserPromptAlwaysExamples(command, context) ==
    TaskSection(command) \o SimilarExamples(context) \o ImplementationInstructions

\* buildUserPrompt
buildUserPrompt(command, context) ==
    TaskSection(command)
        \o (IF ~IsEmptyText(context.examples) /\ ~IsBlankText(context.examples)
            THEN SimilarExamples(context)
            ELSE <<>>)
        \o ImplementationInstructions

\* buildPrompt, given how the nested rules fetch ended: the StructuredPrompt
\* it resolves with, or the error it rejects with
buildPrompt(command, ragContext, fetch) ==
    IF RulesPart(fetch).ok
    THEN [ok     |-> TRUE,
          prompt |-> [system  |-> buildSystemPrompt(command, ragContext, fetch),
                      user    |-> buildUserPrompt(command, ragContext),
                      context |-> [technology  |-> ragContext.technology,
                                   structure   |-> ragContext.folderStructure,
                                   conventions |-> ragContext.conventions,
                                   examples    |-> ragContext.examples]]]
    ELSE [ok |-> FALSE, error |-> RulesPart(fetch).error]

(***************************************************************************)
(* The texts of TaskGeneratorBuilder and of the three handlers, as         *)
(* sequences of pieces. Backquotes and characters outside ASCII in the     *)
(* literals are written with ASCII stand-ins.                              *)
(***************************************************************************)
\* TaskGeneratorBuilder: the opening of the prompt, the metadata and the
\* monorepo structure
TaskPromptOpening(command) ==
    (<<"You are an expert Full-Stack Engineer and Product Manager working on the ",
       toUpperCase(command.scope),
       " application in the CRAC (Centauro Rent a Car) monorepo.\n\n">>)
        \o (<<"**Context Information:**\n",
              "- Application: ",
              command.scope,
              "\n",
              "- Task Type: generate-tasks\n",
              "- Monorepo: CRAC Frontend Monorepo (pnpm workspaces + Turborepo)\n\n">>)
        \o (<<"## Monorepo Structure\n\n",
              "This is a monorepo managed by pnpm workspaces and Turborepo:\n",
              "- **apps/**: Standalone applications (web, rac, partners, mobile, notifications, suppliers, queues)\n",
              "- **packages/**: Shared packages (@crac/core, @crac/design-system, @crac/components, etc.)\n",
              "- **config/**: Shared configurations (ESLint, TypeScript, Prettier)\n\n">>)

\* TaskGeneratorBuilder: technical context, retrieved or default
TaskTechnicalContext(ragContext) ==
    IF ~IsEmptyText(ragContext.technology) /\ ~IsBlankText(ragContext.technology)
    THEN (<<"## Technical Context (from RAG)\n\n",
            "*The following context was retrieved from the monorepo documentation:*\n\n">>
              \o ragContext.technology
              \o <<"\n\n">>)
    ELSE (<<"## Technical Context (default)\n\n",
            "Core technologies used in the monorepo:\n",
            "- Language: TypeScript\n",
            "- UI Framework: React\n",
            "- State Management: Redux Toolkit (primarily)\n",
            "- Styling: Tailwind CSS\n",
            "- Build Tools: Vite (for most apps) or Next.js (for web app)\n",
            "- Testing: Jest + React Testing Library\n\n">>)

\* TaskGeneratorBuilder: project structure, retrieved or default
TaskProjectStructure(ragContext) ==
    IF ~IsEmptyText(ragContext.folderStructure) /\ ~IsBlankText(ragContext.folderStructure)
    THEN (<<"## Project Structure (from RAG)\n\n",
            "*The following structure information was retrieved from the monorepo documentation:*\n\n">>
              \o ragContext.folderStructure
              \o <<"\n\n">>)
    ELSE (<<"## Project Structure (default)\n\n",
            "Feature-driven architecture:\n",
            "- Each feature in 'src/features/' directory\n",
            "- Shared components in 'src/components/'\n",
            "- Utilities in 'src/utils/'\n",
            "- Types in 'src/types/'\n\n">>)

\* TaskGeneratorBuilder: code conventions, retrieved or default
TaskCodeConventions(ragContext) ==
    IF ~IsEmptyText(ragContext.conventions) /\ ~IsBlankText(ragContext.conventions)
    THEN (<<"## Code Conventions (from RAG)\n\n",
            "*The following conventions were retrieved from the monorepo documentation:*\n\n">>
              \o ragContext.conventions
              \o <<"\n\n">>)
    ELSE (<<"## Code Conventions (default)\n\n",
            "Follow these conventions:\n",
            "- **Components**: PascalCase (e.g., 'UserProfile.tsx')\n",
            "- **Functions**: camelCase (e.g., 'getUserData')\n",
            "- **Constants**: UPPER_SNAKE_CASE (e.g., 'API_BASE_URL')\n",
            "- **Imports**: Group by type (external, internal, relative)\n",
            "- **Path aliases**: Use '~/components' instead of relative paths\n\n">>)

\* TaskGeneratorBuilder: the three templates, the task requirements, the
\* generation instructions and the notes
TaskTemplatesAndInstructions(command, templates) ==
    (<<"## Templates for Task Generation\n\n",
       "You have access to three templates that guide the generation process. ",
       "Use these templates to generate a complete document with PRD, Tasks, and Subtasks.\n\n",
       "### Template 1: PRD (Product Requirements Document)\n\n">>
         \o templates.prdTemplate
         \o <<"\n\n",
       "---\n\n",
       "### Template 2: Tasks Generation\n\n">>
         \o templates.tasksTemplate
         \o <<"\n\n",
       "---\n\n",
       "### Template 3: Subtasks Implementation\n\n">>
         \o templates.subtasksTemplate
         \o <<"\n\n",
       "---\n\n">>)
        \o (<<"## Task Requirements\n\n",
              "Based on the user's request, you need to generate a complete task documentation for:\n\n",
              "- **Scope**: ",
              command.scope,
              "\n",
              "- **Requirements**: ",
              command.requirements,
              "\n\n">>)
        \o (<<"## Generation Instructions\n\n",
              "You must generate a **single, complete Markdown document** that includes:\n\n",
              "### Step 1: Generate PRD\n\n",
              "1. Review the PRD template above\n",
              "2. If needed, ask 3-5 clarifying questions (with numbered options) to understand the requirements better\n",
              "3. Generate a complete PRD following the template structure:\n",
              "   - Introduction/Overview\n",
              "   - Goals\n",
              "   - User Stories\n",
              "   - Functional Requirements\n",
              "   - Non-Goals (Out of Scope)\n",
              "   - Design Considerations (if applicable)\n",
              "   - Technical Considerations (if applicable)\n",
              "   - Success Metrics\n",
              "   - Open Questions\n\n",
              "### Step 2: Generate Tasks\n\n",
              "1. Review the Tasks template above\n",
              "2. Based on the PRD you generated, create a task list following the template format\n",
              "3. **IMPORTANT**: Always include task 0.0 \"Create feature branch\" as the first task\n",
              "4. Generate 4-6 high-level parent tasks (numbered 1.0, 2.0, 3.0, etc.)\n",
              "5. For each parent task, generate detailed subtasks (numbered 1.1, 1.2, 2.1, etc.)\n",
              "6. Include a \"Relevant Files\" section listing all files that will be created or modified\n",
              "7. Use checkboxes format: '- [ ]' for incomplete tasks\n\n",
              "### Step 3: Format Output\n\n",
              "Generate a single Markdown document with this structure:\n\n",
              "'''markdown\n",
              "# PRD: [Feature Name]\n\n",
              "[Complete PRD content here]\n\n",
              "---\n\n",
              "# Tasks: [Feature Name]\n\n",
              "## Relevant Files\n\n",
              "[List of relevant files]\n\n",
              "## Tasks\n\n",
              "- [ ] 0.0 Create feature branch\n",
              "- [ ] 0.1 Create and checkout a new branch\n",
              "- [ ] 1.0 Parent Task 1\n",
              "- [ ] 1.1 Subtask 1.1\n",
              "- [ ] 1.2 Subtask 1.2\n",
              "- [ ] 2.0 Parent Task 2\n",
              "- [ ] 2.1 Subtask 2.1\n",
              "[Continue with all tasks and subtasks]\n",
              "'''\n\n",
              "## Important Notes\n\n",
              "- Generate **everything in a single response** - do not wait for user confirmation between steps\n",
              "- The final document should be ready for the user to review and copy\n",
              "- Adapt all templates to the CRAC monorepo conventions shown in the context above\n",
              "- Use the technical context, structure, and conventions from RAG to make tasks specific and actionable\n",
              "- Ensure tasks are detailed enough for a junior developer to implement\n",
              "- Include acceptance criteria where appropriate\n\n">>)

\* TaskGeneratorBuilder.buildTaskGenerationPrompt(command, templates,
\* ragContext).prompt
buildTaskGenerationPrompt(command, templates, ragContext) ==
    TaskPromptOpening(command)
        \o TaskTechnicalContext(ragContext)
        \o TaskProjectStructure(ragContext)
        \o TaskCodeConventions(ragContext)
        \o TaskTemplatesAndInstructions(command, templates)

\* dev_task: ragStatusHeader
RagStatusHeader(ragContext, scope) ==
    LET hasTechnology  == ~IsBlankText(ragContext.technology)
        hasStructure   == ~IsBlankText(ragContext.folderStructure)
        hasConventions == ~IsBlankText(ragContext.conventions)
        hasExamples    == ~IsBlankText(ragContext.examples)
    IN  IF hasTechnology \/ hasStructure \/ hasConventions \/ hasExamples
        THEN (<<"\n\n===========================================================\n",
                "[OK] RAG CONTEXT LOADED SUCCESSFULLY\n",
                "===========================================================\n",
                "This prompt includes context retrieved from the monorepo documentation using semantic search.\n",
                "- Technology context: ",
                FoundMark(hasTechnology),
                "\n",
                "- Structure context: ",
                FoundMark(hasStructure),
                "\n",
                "- Conventions context: ",
                FoundMark(hasConventions),
                "\n",
                "- Examples context: ",
                FoundMark(hasExamples),
                "\n",
                "===========================================================\n\n">>)
        ELSE (<<"\n\n===========================================================\n",
                "[!] RAG CONTEXT NOT FOUND - USING FALLBACKS\n",
                "===========================================================\n",
                "No context was found in Supabase for scope \"",
                scope,
                "\".\n",
                "Using default fallback context. Make sure embeddings are available in Supabase.\n",
                "===========================================================\n\n">>)

\* the pieces of the error messages that hold SUPABASE_URL,
\* SUPABASE_SERVICE_ROLE_KEY, GEMINI_API_KEY or "Invalid supabaseUrl"
ConfigurationPieces ==
    {"Missing SUPABASE_URL environment variable. Please set it in your .env file or environment.",
     "Missing SUPABASE_SERVICE_ROLE_KEY environment variable. Please set it in your .env file or environment.",
     "Invalid SUPABASE_URL format: \"",
     "Missing GEMINI_API_KEY environment variable"}

\* isEnvError: errorMessage.includes(...) of one of the four names
IsEnvError(errorMessage) ==
    \E i \in 1..Len(errorMessage) : errorMessage[i] \in ConfigurationPieces

\* the catch block of dev_task: the text it returns for an error
DevTaskErrorText(error) ==
    LET errorMessage == error.message
    IN  (<<"Error generating context-aware prompt: ">>
             \o errorMessage
             \o <<"\n\n">>)
            \o (IF IsEnvError(errorMessage)
                THEN (<<"\n===========================================================\n",
                        "[!] CONFIGURATION ERROR\n",
                        "===========================================================\n",
                        "The MCP server is missing required environment variables.\n\n",
                        "Please ensure the following are set:\n",
                        "- SUPABASE_URL (e.g., https://your-project.supabase.co)\n",
                        "- SUPABASE_SERVICE_ROLE_KEY\n",
                        "- GEMINI_API_KEY\n\n",
                        "If running locally, create a .env file in the crac-mcp directory.\n",
                        "If running on Railway, set these in the Railway dashboard.\n",
                        "===========================================================\n">>)
                ELSE <<>>)

\* the catch block of generate_tasks: the text it returns for an error
GenerateTasksErrorText(error) ==
    LET errorMessage == error.message
    IN  (<<"Error generating task prompt: ">>
             \o errorMessage
             \o <<"\n\n">>)
            \o (IF IsEnvError(errorMessage)
                THEN (<<"\n===========================================================\n",
                        "[!] CONFIGURATION ERROR\n",
                        "===========================================================\n",
                        "The MCP server is missing required environment variables.\n\n",
                        "Please ensure the following are set:\n",
                        "- SUPABASE_URL (e.g., https://your-project.supabase.co)\n",
                        "- SUPABASE_SERVICE_ROLE_KEY\n",
                        "- GEMINI_API_KEY\n\n",
                        "If running locally, create a .env file in the crac-mcp directory.\n",
                        "If running on Railway, set these in the Railway dashboard.\n",
                        "===========================================================\n">>)
                ELSE <<>>)
(***************************************************************************)
(* The handlers of dev_task, generate_tasks and get_crac_rules.            *)
(***************************************************************************)
\* a check of the command that does not trim it
IsEmptyCommand(command) == command = Null \/ command[1] = <<>>

\* !command || command.trim().length === 0, for a command that is undefined
\* (Null) or a string
IsBlankCommand(command) == command = Null \/ Trim(command[1]) = <<>>

\* the message dev_task returns for a blank command
DevTaskEmptyCommand ==
    <<"Error: Command cannot be empty. Please provide a development command.">>

\* the message generate_tasks returns for a blank command
GenerateTasksEmptyCommand ==
    <<"Error: Command cannot be empty. Please provide a command for task generation.">>

\* the strings of the parser that the handlers pass on, as the values the
\* retrieval engines and the prompt builders work with
TextOf(chars) ==
    CASE chars = <<>> -> ""
      [] chars = <<"d", "e", "v">> -> "dev"
      [] chars = <<"g", "e", "n">> -> "gen"
      [] chars = <<"g", "e", "n", "e", "r", "a", "t", "e", "-", "t", "a", "s", "k", "s">> -> "generate-tasks"
      [] chars = <<"r", "a", "c">> -> "rac"
      [] chars = <<"g", "l", "o", "b", "a", "l">> -> "global"
      [] chars = <<"a", "d", "d", " ", "b", "o", "o", "k", "i", "n", "g", " ", "s", "e", "a", "r", "c", "h">> -> "add booking search"

\* parsed.tool.toLowerCase() is one of the names of the task generator
IsGenerateTasksTool(tool) ==
    ToLowerCase(tool) \in {<<"g", "e", "n", "e", "r", "a", "t", "e", "-", "t", "a", "s", "k", "s">>,
                           <<"g", "e", "n", "-", "t", "a", "s", "k", "s">>,
                           <<"g", "e", "n", "e", "r", "a", "t", "e">>,
                           <<"g", "e", "n">>}

\* generate_tasks: parsed.tool = "generate-tasks" for the variations
NormalizeTool(p) ==
    IF IsGenerateTasksTool(p.tool)
    THEN [p EXCEPT !.tool = <<"g", "e", "n", "e", "r", "a", "t", "e", "-", "t", "a", "s", "k", "s">>]
    ELSE p

\* the ParsedCommand as the engines and the builders read it
CommandOf(p) ==
    [tool         |-> TextOf(p.tool),
     scope        |-> TextOf(p.scope),
     requirements |-> TextOf(p.requirements),
     raw          |-> p.raw]

\* the arguments of contextSearcher.searchContext(parsed.requirements,
\* parsed.scope, parsed.tool)
RequestOf(p) ==
    [requirements |-> TextOf(p.requirements),
     scope        |-> TextOf(p.scope),
     tool         |-> TextOf(p.tool)]

\* what a template literal shows for a property that the value does not have
Undefined == <<"undefined">>

\* dev_task: combinedPrompt. structuredPrompt is the promise that buildPrompt
\* returned: it has no system and no user property.
CombinedPrompt(ragContext, scope) ==
    RagStatusHeader(ragContext, scope) \o Undefined \o <<"\n\n---\n\n">> \o Undefined

\* the description of a pattern
DescriptionOf(type) ==
    CASE type = TESTING -> "Testing rules and conventions"
      [] type = STRUCTURE -> "Directory structure and organization rules"
      [] type = ENDPOINTS -> "API endpoint and service implementation rules"
      [] type = CODE_STYLE -> "Code style and naming conventions"
      [] OTHER -> type

\* CracRulesDetector.getRulesDescription(ruleTypes)
getRulesDescription(types) ==
    IF Len(types) = 1 /\ types[1] = ALL
    THEN <<"All CRAC monorepo rules and conventions">>
    ELSE Join([i \in 1..Len(types) |-> <<DescriptionOf(types[i])>>], <<", ">>)

\* the members of ContentCategory.RULES that getRagCategories adds for one
\* rule type, in order
CategoriesOf(type) ==
    CASE type = TESTING -> <<"RULES.CRAC", "RULES.TESTING">>
      [] type = STRUCTURE -> <<"RULES.CRAC", "RULES.STRUCTURE">>
      [] type = ENDPOINTS -> <<"RULES.ENDPOINTS">>
      [] type = CODE_STYLE -> <<"RULES.CRAC", "RULES.CODE_STYLE">>
      [] type = ALL -> <<"RULES.CRAC", "RULES.ENDPOINTS", "RULES.TESTING",
                        "RULES.STRUCTURE", "RULES.CODE_STYLE">>
      [] OTHER -> <<>>

\* a Set<string> in insertion order: the first occurrences of a sequence
InsertionOrder(s) ==
    SelectSeq([i \in 1..Len(s) |-> IF \E j \in 1..(i - 1) : s[j] = s[i]
                                   THEN "" ELSE s[i]],
              LAMBDA c : c # "")

RECURSIVE AllCategoriesOf(_)
\* the categories of the types, one after the other
AllCategoriesOf(types) ==
    IF types = <<>> THEN <<>>
    ELSE CategoriesOf(Head(types)) \o AllCategoriesOf(Tail(types))

\* CracRulesDetector.getRagCategories(ruleTypes)
getRagCategories(types) == InsertionOrder(AllCategoriesOf(types))

NoRulesFound ==
    <<"No CRAC rules found. Make sure the rules are ingested in Supabase with the correct categories.">>

\* the arguments of the searchRules call of CracRulesProvider.getRules
RulesCallOf(context, types) ==
    [query      |-> IF context = Null \/ context[1] = <<>> THEN <<>> ELSE context[1],
     categories |-> IF Len(getRagCategories(types)) > 0
                    THEN Some(getRagCategories(types)) ELSE Null,
     topK       |-> 5]

\* the text get_crac_rules returns when searchRules resolved with content
RulesResponse(types, content) ==
    LET description == getRulesDescription(types)
    IN  <<"## CRAC Rules - ">>
            \o description
            \o <<"\n\n",
          "*Detected rule types: ">>
            \o Join([i \in 1..Len(types) |-> <<types[i]>>], <<", ">>)
            \o <<"*\n\n",
          "---\n\n">>
            \o (IF IsEmptyText(content) THEN NoRulesFound ELSE content)
(***************************************************************************)
(* The environment of the retrieval engines: the configuration, the        *)
(* dev_apps table and the answers of the two backends.                     *)
(***************************************************************************)
MaxRows == 1

AppKeys == <<"global", "rac">>

Registries == [Range(AppKeys) -> {"active", "inactive", "absent"}]

Environments ==
    [SUPABASE_URL              : {"unset", "malformed", "ok"},
     SUPABASE_SERVICE_ROLE_KEY : {"blank", "ok"},
     GEMINI_API_KEY            : {"empty", "ok"}]

\* the arguments searchContext is called with
Requests ==
    [requirements : {"", "add booking search"},
     scope        : Range(AppKeys),
     tool         : {"dev"}]

NetworkError == Error(<<"TypeError: fetch failed">>)

\* the answer to .eq("key", scope).eq("is_active", true).single(): the row,
\* or the error PostgREST gives when not exactly one row matches
SingleAnswer(table, scope) ==
    IF table[scope] = "active"
    THEN [data |-> Some([key |-> scope, is_active |-> TRUE]), error |-> Null]
    ELSE [data |-> Null,
          error |-> Some(Error(<<"JSON object requested, multiple (or no) rows returned">>))]

\* the answer to .select("key").eq("is_active", true): the active rows
ListAnswer(table) ==
    [data  |-> Some([i \in 1..Len(SelectSeq(AppKeys, LAMBDA k : table[k] = "active"))
                        |-> [key |-> SelectSeq(AppKeys, LAMBDA k : table[k] = "active")[i]]]),
     error |-> Null]

\* a dev_apps query that failed: no data, and the error of the failure
FailedAnswer == [data |-> Null, error |-> Some(NetworkError)]

\* the answers embedContent can give: it throws, or returns a vector of
\* some length
EmbedAnswers ==
    {[threw |-> TRUE, error |-> Error(<<"[GoogleGenerativeAI Error]: fetch failed">>)]}
        \cup {[threw |-> FALSE, values |-> n] : n \in {0, 3, EMBEDDING_DIMENSION}}

\* the k-th row match_dev_contexts returns for a query; the second row has
\* no distance
BackendRow(q, k) ==
    IF k = 1
    THEN [id |-> 1, app |-> q.apps[1], scope |-> q.scopes[1], title |-> q.aspect,
          path |-> "docs/one.md", content |-> "first document", distance |-> 12345]
    ELSE [id |-> k, app |-> q.apps[2], scope |-> q.scopes[2], title |-> q.aspect,
          path |-> "docs/more.md", content |-> "another document"]

\* the answers match_dev_contexts can give to a query: an error, no data,
\* or up to match_count rows
SearchAnswers(q) ==
    {[data |-> Null, error |-> Some(Error(<<"function match_dev_contexts does not exist">>))],
     [data |-> Null, error |-> Null]}
        \cup {[data |-> Some([k \in 1..n |-> BackendRow(q, k)]), error |-> Null] :
                  n \in {m \in 0..MaxRows : m <= q.topK}}

NoError == [message |-> <<>>]

NoCalls == [a \in AspectNames |-> 0]

\* no searchContext invocation has been made
SearchIdle ==
    /\ scReq = NoValue
    /\ scPhase = "idle"
    /\ asp = [a \in AspectNames |-> "idle"]
    /\ aspResults = [a \in AspectNames |-> <<>>]
    /\ aspError = [a \in AspectNames |-> NoError]
    /\ embedCalls = NoCalls
    /\ searchCalls = NoCalls
    /\ scError = NoError
    /\ scResult = NoValue
    /\ registryFault = Null

\* no searchTemplates call has been made
TemplatesIdle ==
    /\ tsPhase = "idle"
    /\ slot = [t \in TemplateNames |-> "idle"]
    /\ slotContent = [t \in TemplateNames |-> <<>>]
    /\ slotError = [t \in TemplateNames |-> NoError]
    /\ tsError = NoError
    /\ tsResult = NoValue

\* detectRules has not been called
DetectorIdle ==
    /\ ruleContext = Null
    /\ ruleTypes = <<>>
    /\ dpc = "idle"

\* buildPrompt has not been called
PromptIdle ==
    /\ pbCommand = NoValue
    /\ pbContext = NoValue
    /\ pbSearcher = FALSE
    /\ pbPhase = "idle"
    /\ pbFetch = [called |-> FALSE]
    /\ pbPrompt = NoValue
    /\ pbError = NoError

\* the HTTP server process has not been started
ServerOff ==
    /\ srvPhase = "off"
    /\ srvServed = 0

\* no handler has been invoked
HandlersIdle ==
    /\ hOp = "none"
    /\ hArg = Null
    /\ hPhase = "idle"
    /\ hRulesCall = NoValue
    /\ hText = <<>>
    /\ hThrown = NoError

\* no request has entered the API key middleware
AuthIdle ==
    /\ apiKeys = <<>>
    /\ authClient = FALSE
    /\ mwReq = NoValue
    /\ mwPhase = "idle"
    /\ mwApiKey = Null
    /\ vKeys = <<>>
    /\ vIndex = 0
    /\ mwStatus = 0
    /\ mwBody = NoValue
    /\ mwNext = 0
    /\ mwAttached = Null
    /\ mwThrown = NoError
    /\ updPhase = "none"

ClientsUnused ==
    /\ env = [SUPABASE_URL |-> "ok", SUPABASE_SERVICE_ROLE_KEY |-> "ok",
              GEMINI_API_KEY |-> "ok"]
    /\ supabase = FALSE
    /\ genAI = FALSE
    /\ supabaseBuilt = 0
    /\ genAIBuilt = 0
    /\ devApps = [k \in Range(AppKeys) |-> "active"]

ParserIdle ==
    /\ cmd = <<>>
    /\ parsed = NoValue
    /\ ppc = "idle"

(***************************************************************************)
(* The API key middleware: extraction of the key from the headers,         *)
(* validateApiKey, and the api_keys client. Keys and header values are     *)
(* sequences of one-character strings. A key hash is the bcrypt hash of    *)
(* one plain key; expires_at is "null", or a date in the "past" or in the  *)
(* "future" of the validation.                                             *)
(***************************************************************************)
\* authHeader.match(/^Bearer\s+(.+)$/i): match[1], or Null without a match
BearerToken(authHeader) ==
    LET e == SpaceRunEnd(authHeader, 7)
    IN  IF ~MatchesAtCI(authHeader, 1, <<"b", "e", "a", "r", "e", "r">>) \/ e < 7
        THEN Null
        ELSE IF e < Len(authHeader)
        THEN Some(SubSeq(authHeader, e + 1, Len(authHeader)))
        ELSE IF e > 7 THEN Some(<<authHeader[e]>>)
        ELSE Null

\* extractApiKeyFromRequest(req): the Bearer token of the Authorization
\* header, or else the X-API-Key header when it is one non-empty string
extractApiKeyFromRequest(headers) ==
    IF /\ headers.authorization # Null
       /\ headers.authorization[1] # <<>>
       /\ BearerToken(headers.authorization[1]) # Null
       /\ BearerToken(headers.authorization[1])[1] # <<>>
    THEN BearerToken(headers.authorization[1])
    ELSE IF headers.xApiKey.kind = "string" /\ headers.xApiKey.value # <<>>
    THEN Some(headers.xApiKey.value)
    ELSE Null

\* apiKey.match(/^rag_(live|test)_/): match[1], or Null without a match
PrefixMatch(apiKey) ==
    IF MatchesAt(apiKey, 1, <<"r", "a", "g", "_", "l", "i", "v", "e", "_">>) THEN Some("live")
    ELSE IF MatchesAt(apiKey, 1, <<"r", "a", "g", "_", "t", "e", "s", "t", "_">>) THEN Some("test")
    ELSE Null

\* the format checks of validateApiKey pass
HasKeyFormat(apiKey) ==
    /\ apiKey # <<>>
    /\ MatchesAt(apiKey, 1, <<"r", "a", "g", "_">>)
    /\ PrefixMatch(apiKey) # Null

\* bcrypt.hash(plainKey): the hash stored for a key
Hash(plainKey) == <<"$2a$12$">> \o plainKey

\* verifyApiKey(plainKey, hashedKey): bcrypt.compare
verifyApiKey(plainKey, hashedKey) == hashedKey = Hash(plainKey)

\* api-key client getSupabaseClient()
getApiKeysClient(cached, e) ==
    IF cached THEN [ok |-> TRUE]
    ELSE IF IsFalsy(e.SUPABASE_URL) \/ IsFalsy(e.SUPABASE_SERVICE_ROLE_KEY)
    THEN [ok |-> FALSE,
          error |-> Error(<<"Missing SUPABASE_URL or SUPABASE_SERVICE_ROLE_KEY environment variables">>)]
    ELSE [ok |-> TRUE]

\* listApiKeys after its await on the query: the rows, or the error thrown
listApiKeysResult(response) ==
    IF response.error # Null
    THEN [ok |-> FALSE,
          error |-> Error(<<"Failed to list API keys: ">> \o response.error[1].message)]
    ELSE [ok |-> TRUE, keys |-> IF response.data = Null THEN <<>> ELSE response.data[1]]

\* allKeys.filter((key) => key.prefix === prefix && key.is_active)
candidateKeys(allKeys, prefix) ==
    SelectSeq(allKeys, LAMBDA key : key.prefix = prefix /\ key.is_active)

\* an expiration check that skips no key
IsExpiredNever(dbKey) == FALSE

\* dbKey.expires_at && new Date(dbKey.expires_at) < now
IsExpired(dbKey) == dbKey.expires_at = "past"

\* the position of the next key from position i on that the loop of
\* validateApiKey verifies (0: the loop ends)
RECURSIVE NextToVerify(_, _)
NextToVerify(keys, i) ==
    IF i > Len(keys) THEN 0
    ELSE IF IsExpired(keys[i]) THEN NextToVerify(keys, i + 1)
    ELSE i

\* res.status(401).json({jsonrpc: "2.0", error: {code: -32001, message}, id: null})
Unauthorized(message) ==
    [jsonrpc |-> "2.0", error |-> [code |-> -32001, message |-> message], id |-> Null]

ApiKeyRequired ==
    <<"API key required. Provide it via 'Authorization: Bearer <key>' or 'X-API-Key' header">>

InvalidKeyFormat == <<"Invalid API key format">>

InvalidApiKey == <<"Invalid API key">>

\* updateLastUsedAt after its await on the update: it logs an error of the
\* answer and returns; a query that throws rejects its promise
updateLastUsedAtResult(response) ==
    IF response.threw THEN "rejected" ELSE "resolved"

\* a call of updateLastUsedAt without a catch handler
WithoutCatch(settled) ==
    IF settled = "rejected" THEN "unhandled" ELSE "done"

\* updateLastUsedAt(dbKey.id).catch((err) => console.error(...))
CatchAndLog(settled) ==
    IF settled = "rejected" THEN "logged" ELSE "done"

(***************************************************************************)
(* ContextSearcher.searchContext as a state machine. One step is the code  *)
(* that runs between two awaits: a call, or the continuation that an       *)
(* answer of a backend resumes.                                            *)
(***************************************************************************)
QueryOf(a) ==
    LET qs == Queries(scReq.requirements, scReq.scope, scReq.tool)
    IN  qs[CHOOSE i \in 1..Len(qs) : qs[i].aspect = a]

\* the aspects of the queries of an invocation, in the order of the array
QueryAspects(req) ==
    LET qs == Queries(req.requirements, req.scope, req.tool)
    IN  [i \in 1..Len(qs) |-> qs[i].aspect]

FirstFailed(st, order) ==
    order[CHOOSE i \in 1..Len(order) :
              /\ st[order[i]] = "failed"
              /\ \A j \in 1..(i - 1) : st[order[j]] # "failed"]

\* await Promise.all(searchPromises) and what follows it. The invocation is
\* settled by the first rejection (of aspect culprit), or by the fulfilment
\* of all the queries; later answers change nothing.
FanIn(phase, st, errs, results, culprit, req) ==
    LET names   == Range(QueryAspects(req))
        outcome == PromiseAll(st, names)
    IN  IF phase # "searching"
        THEN UNCHANGED <<scPhase, scError, scResult>>
        ELSE IF outcome = "rejected"
        THEN /\ scPhase' = "failed"
             /\ scError' = errs[culprit]
             /\ UNCHANGED scResult
        ELSE IF outcome = "fulfilled"
        THEN /\ scPhase' = "returned"
             /\ scResult' = BuildRagContext({a \in names : st[a] = "done"}, results)
             /\ UNCHANGED scError
        ELSE /\ scPhase' = "searching"
             /\ UNCHANGED <<scError, scResult>>

\* the code of searchContext(requirements, scope, tool) up to its first
\* await: validateScope builds or reuses the client and sends its query
SearchContextBegins(req) ==
    /\ scPhase \in {"idle", "returned", "failed"}
    /\ scReq' = req
    /\ asp' = [a \in AspectNames |-> "idle"]
    /\ aspResults' = [a \in AspectNames |-> <<>>]
    /\ aspError' = [a \in AspectNames |-> NoError]
    /\ embedCalls' = NoCalls
    /\ searchCalls' = NoCalls
    /\ scResult' = NoValue
    /\ registryFault' = Null
    /\ supabase' = (supabase \/ getSupabaseClient(supabase, env).ok)
    /\ supabaseBuilt' = supabaseBuilt + Constructions(getSupabaseClient(supabase, env))
    /\ IF getSupabaseClient(supabase, env).ok
       THEN scPhase' = "validating" /\ scError' = NoError
       ELSE scPhase' = "failed" /\ scError' = getSupabaseClient(supabase, env).error

\* searchContext(requirements, scope, tool) is called
SearchContext(req) ==
    /\ SearchContextBegins(req)
    /\ UNCHANGED <<handlerVars, serverVars, authVars, promptVars, detectorVars, parserVars,
                   templateVars, env, genAI, genAIBuilt, devApps>>

\* the queries.map(async ...) of searchContext: every query runs up to its
\* first await, then Promise.all is awaited
StartQueries ==
    LET order == QueryAspects(scReq)
        call(a) == generateEmbeddingCall(QueryOf(a).query, genAI, env)
        st == [a \in AspectNames |->
                  IF a \notin Range(order) THEN "idle"
                  ELSE IF call(a).issued THEN "embedding" ELSE "failed"]
        errs == [a \in AspectNames |->
                    IF a \in Range(order) /\ ~call(a).issued
                    THEN call(a).error ELSE NoError]
    IN  /\ asp' = st
        /\ aspError' = errs
        /\ embedCalls' = [a \in AspectNames |-> IF st[a] = "embedding" THEN 1 ELSE 0]
        /\ genAI' = (genAI \/ \E a \in Range(order) : call(a).issued)
        /\ genAIBuilt' = genAIBuilt + GenAIBuilds(Len(order), genAI, env)
        /\ FanIn("searching", st, errs, aspResults,
                 IF \E a \in Range(order) : st[a] = "failed"
                 THEN FirstFailed(st, order) ELSE order[1], scReq)
        /\ UNCHANGED <<aspResults, searchCalls>>

\* the dev_apps query of validateScope is answered (answer), or fails
ValidateScopeAnswered(response) ==
    /\ scPhase = "validating"
    /\ registryFault' = IF response = FailedAnswer THEN response.error ELSE registryFault
    /\ IF validateScope(response)
       THEN StartQueries /\ UNCHANGED supabaseBuilt
       ELSE \* getActiveScopes reuses the client and sends its query
            /\ scPhase' = "listing"
            /\ supabaseBuilt' = supabaseBuilt + Constructions(getSupabaseClient(supabase, env))
            /\ UNCHANGED <<asp, aspResults, aspError, embedCalls, searchCalls,
                           scError, scResult, genAI, genAIBuilt>>
    /\ UNCHANGED <<handlerVars, serverVars, authVars, promptVars, detectorVars, parserVars, templateVars, env, supabase, devApps, scReq>>

ValidateScopeResponds ==
    \/ ValidateScopeAnswered(SingleAnswer(devApps, scReq.scope))
    \/ ValidateScopeAnswered(FailedAnswer)

\* the dev_apps query of getActiveScopes is answered, or fails; searchContext
\* throws the invalid scope error
GetActiveScopesAnswered(response) ==
    /\ scPhase = "listing"
    /\ registryFault' = IF response = FailedAnswer THEN response.error ELSE registryFault
    /\ scPhase' = "failed"
    /\ scError' = InvalidScopeError(scReq.scope, getActiveScopes(response))
    /\ UNCHANGED <<handlerVars, serverVars, authVars, promptVars, detectorVars, parserVars, templateVars, clientVars, scReq, asp, aspResults, aspError,
                   embedCalls, searchCalls, scResult>>

GetActiveScopesResponds ==
    \/ GetActiveScopesAnswered(ListAnswer(devApps))
    \/ GetActiveScopesAnswered(FailedAnswer)

\* embedContent answers the query of aspect a with response:
\* generateEmbedding returns the vector and searchSimilarContexts sends its
\* rpc, or generateEmbedding throws
EmbedRespondsWith(a, response) ==
    /\ asp[a] = "embedding"
    /\ LET r  == generateEmbeddingResult(response)
           c  == getSupabaseClient(supabase, env)
           st == [asp EXCEPT ![a] = IF r.ok /\ c.ok THEN "searching" ELSE "failed"]
           errs == [aspError EXCEPT ![a] = IF ~r.ok THEN r.error
                                           ELSE IF ~c.ok THEN c.error ELSE @]
       IN  /\ asp' = st
           /\ aspError' = errs
           /\ searchCalls' = [searchCalls EXCEPT ![a] = IF r.ok /\ c.ok THEN @ + 1 ELSE @]
           /\ supabaseBuilt' = supabaseBuilt + (IF r.ok THEN Constructions(c) ELSE 0)
           /\ FanIn(scPhase, st, errs, aspResults, a, scReq)
    /\ UNCHANGED <<handlerVars, serverVars, authVars, promptVars, detectorVars, parserVars, templateVars,
                   env, supabase, genAI, genAIBuilt, devApps, scReq, aspResults, embedCalls,
                   registryFault>>

\* embedContent answers the query of aspect a
EmbedResponds(a) == \E response \in EmbedAnswers : EmbedRespondsWith(a, response)

\* match_dev_contexts answers the query of aspect a with response
SearchRespondsWith(a, response) ==
    /\ asp[a] = "searching"
    /\ LET r  == searchSimilarContextsResult(response)
           st == [asp EXCEPT ![a] = IF r.ok THEN "done" ELSE "failed"]
           errs == [aspError EXCEPT ![a] = IF r.ok THEN @ ELSE r.error]
           results == [aspResults EXCEPT ![a] = IF r.ok THEN r.results ELSE @]
       IN  /\ asp' = st
           /\ aspError' = errs
           /\ aspResults' = results
           /\ FanIn(scPhase, st, errs, results, a, scReq)
    /\ UNCHANGED <<handlerVars, serverVars, authVars, promptVars, detectorVars, parserVars, templateVars, clientVars, scReq, embedCalls, searchCalls, registryFault>>

\* match_dev_contexts answers the query of aspect a
SearchResponds(a) ==
    /\ asp[a] = "searching"
    /\ \E response \in SearchAnswers(QueryOf(a)) : SearchRespondsWith(a, response)

\* the call that the query of aspect a waits for is never answered
CallHangs(a) ==
    /\ asp[a] \in {"embedding", "searching"}
    /\ asp' = [asp EXCEPT ![a] = IF @ = "embedding" THEN "embedHung" ELSE "searchHung"]
    /\ UNCHANGED <<handlerVars, serverVars, authVars, promptVars, detectorVars, parserVars, templateVars, clientVars, scReq, scPhase, aspResults, aspError,
                   embedCalls, searchCalls, scError, scResult, registryFault>>

\* the steps of the code of an invocation that is under way
InvocationStep ==
    \/ ValidateScopeResponds
    \/ GetActiveScopesResponds
    \/ \E a \in AspectNames : EmbedResponds(a)
    \/ \E a \in AspectNames : SearchResponds(a)

Init ==
    /\ ParserIdle
    /\ env \in Environments
    /\ supabase = FALSE
    /\ genAI = FALSE
    /\ supabaseBuilt = 0
    /\ genAIBuilt = 0
    /\ devApps \in Registries
    /\ SearchIdle
    /\ TemplatesIdle
    /\ ServerOff
    /\ HandlersIdle
    /\ AuthIdle
    /\ DetectorIdle
    /\ PromptIdle

Next ==
    \/ \E req \in Requests : SearchContext(req)
    \/ ValidateScopeResponds
    \/ GetActiveScopesResponds
    \/ \E a \in AspectNames : EmbedResponds(a)
    \/ \E a \in AspectNames : SearchResponds(a)
    \/ \E a \in AspectNames : CallHangs(a)

Spec == Init /\ [][Next]_vars

(***************************************************************************)
(* Properties of ContextSearcher.searchContext.                            *)
(***************************************************************************)
ActiveScopes == {k \in Range(AppKeys) : devApps[k] = "active"}

IsInvalidScopeError(e) == Len(e.message) >= 3 /\ e.message[1] = "Invalid scope: \""

\* the scopes an invalid scope error lists after "Available scopes: "
ListedScopes(e) == {e.message[i] : i \in 4..Len(e.message)} \ {", "}

RagFields == {"technology", "folderStructure", "conventions", "examples", "architecture"}

SumCalls(calls) ==
    calls["technology"] + calls["folderStructure"] + calls["conventions"]
        + calls["examples"]

\* C4: an invocation whose scope is absent from dev_apps or not active fails
\* with an error that names the scope and lists exactly the active scopes.
C4_InvalidScopeListsActiveScopes ==
    (scPhase = "failed" /\ supabase /\ devApps[scReq.scope] # "active") =>
        /\ IsInvalidScopeError(scError)
        /\ scError.message[2] = scReq.scope
        /\ ListedScopes(scError) = ActiveScopes

\* C5: when a dev_apps query itself fails during an invocation, the
\* invocation fails with the message of that failure, and not with an
\* invalid scope error.
C5_RegistryFailureSurfaced ==
    (scPhase \in {"failed", "returned"} /\ registryFault # Null) =>
        /\ scPhase = "failed"
        /\ ~IsInvalidScopeError(scError)
        /\ \E i \in 1..Len(scError.message) :
               <<scError.message[i]>> = registryFault[1].message

\* C6: once the embedding call or the search call of an aspect query has
\* failed, the invocation has failed, with the error of a failed aspect
\* query, and has returned no context.
C6_AspectFailureFailsAll ==
    (\E a \in AspectNames : asp[a] = "failed") =>
        /\ scPhase = "failed"
        /\ scResult = NoValue
        /\ \E a \in AspectNames : asp[a] = "failed" /\ scError = aspError[a]

C6_Witness ==
    /\ scPhase = "failed"
    /\ \E a, b, c \in AspectNames :
         /\ asp[a] = "failed" /\ scError = aspError[a]
         /\ asp[b] = "done" /\ aspResults[b] # <<>>
         /\ asp[c] = "failed" /\ aspError[c] # aspError[a]

\* C7: an invocation that returns a context has issued exactly 4 embedding
\* calls and 4 search calls, one of each per aspect, whatever the requirement;
\* no invocation issues more than one of each per aspect.
C7_FourEmbeddingsFourSearches ==
    /\ \A a \in AspectNames : embedCalls[a] <= 1 /\ searchCalls[a] <= embedCalls[a]
    /\ scPhase = "returned" =>
           /\ SumCalls(embedCalls) = 4
           /\ SumCalls(searchCalls) = 4

C7_Witness ==
    /\ scPhase = "returned"
    /\ scReq.requirements = ""
    /\ SumCalls(embedCalls) = 4

\* C8: a returned context has the five fields, and each of them, the derived
\* architecture included, is the empty string when no results were found
\* for it.
C8_EmptyFieldsAreEmptyStrings ==
    scPhase = "returned" =>
        /\ DOMAIN scResult = RagFields
        /\ \A a \in AspectNames : aspResults[a] = <<>> => scResult[a] = <<>>
        /\ (aspResults["technology"] = <<>> /\ aspResults["folderStructure"] = <<>>)
               => scResult["architecture"] = <<>>

\* C9: an invocation that waits for an embedding call or a search call that
\* is never answered can still take a step that ends the wait.
C9_BoundedWait ==
    (scPhase = "searching" /\ \E a \in AspectNames : asp[a] \in {"embedHung", "searchHung"})
        => ENABLED InvocationStep


\* C22: the context of an invocation is built only after all four aspect
\* queries have completed, and each aspect field holds the combined results
\* of the query of its own aspect, whatever the order in which the queries
\* completed.
C22_ContextAfterAllQueries ==
    scPhase = "returned" =>
        /\ \A a \in AspectNames : asp[a] = "done"
        /\ \A a \in AspectNames : scResult[a] = combineResults(aspResults[a])

\* a context was returned whose aspect queries were answered with rows for
\* some aspects and with none for others
C22_Witness ==
    /\ scPhase = "returned"
    /\ aspResults["technology"] = <<>>
    /\ aspResults["examples"] # <<>>
    /\ aspResults["conventions"] # <<>>
    /\ scResult["examples"] # scResult["conventions"]

\* the dev_apps query of validateScope of the invocation was answered
\* without the row of an active scope
ScopeRejected ==
    /\ supabase
    /\ scPhase \notin {"idle", "validating"}
    /\ devApps[scReq.scope] # "active" \/ registryFault # Null

\* C26: when the scope validation of an invocation fails, the invocation
\* issues no embedding call and no similarity-search call; validation
\* completes before the first aspect query starts.
C26_NoQueriesForRejectedScope ==
    /\ scPhase = "validating" =>
           /\ embedCalls = NoCalls
           /\ searchCalls = NoCalls
    /\ ScopeRejected =>
           /\ scPhase \in {"listing", "failed"}
           /\ embedCalls = NoCalls
           /\ searchCalls = NoCalls
           /\ \A a \in AspectNames : asp[a] = "idle"

\* an invocation for an inactive scope has failed with the invalid scope
\* error, under a configuration with which the queries could have been made
C26_Witness ==
    /\ scPhase = "failed"
    /\ devApps[scReq.scope] = "inactive"
    /\ IsInvalidScopeError(scError)
    /\ env.GEMINI_API_KEY = "ok"
    /\ SumCalls(embedCalls) = 0

\* the configuration lets getSupabaseClient() construct its client
SupabaseConfigured ==
    /\ ~IsMissing(env.SUPABASE_URL)
    /\ ~IsMissing(env.SUPABASE_SERVICE_ROLE_KEY)
    /\ env.SUPABASE_URL # "malformed"

\* C27: across any sequence of requests the embedding client and the
\* vector-backend client are each constructed at most once, cached from
\* their construction on and reused by every later call; a construction that
\* failed on missing configuration caches nothing, so that the next
\* invocation attempts it, and fails on it, again.
C27_ClientsConstructedOnce ==
    /\ supabaseBuilt <= 1
    /\ genAIBuilt <= 1
    /\ supabase <=> supabaseBuilt = 1
    /\ genAI <=> genAIBuilt = 1
    /\ (scPhase # "idle" /\ ~SupabaseConfigured) =>
           /\ ~supabase
           /\ scPhase = "failed"
           /\ scError = getSupabaseClient(FALSE, env).error
    /\ (scPhase # "idle" /\ SupabaseConfigured) => supabase
    /\ (scPhase = "failed" /\ IsFalsy(env.GEMINI_API_KEY)) => ~genAI

\* an invocation has made one call of getSupabaseClient() for its validation
\* and one for each of its four searches, and four calls of getGenAI(), with
\* one client of each kind constructed
C27_Witness ==
    /\ scPhase = "returned"
    /\ SumCalls(embedCalls) = 4
    /\ SumCalls(searchCalls) = 4
    /\ supabaseBuilt = 1
    /\ genAIBuilt = 1
(***************************************************************************)
(* TemplateSearcher.searchTemplates as a state machine.                    *)
(***************************************************************************)
TemplateOrder == [i \in 1..Len(TemplateQueries) |-> TemplateQueries[i].template]

\* await Promise.all(searchPromises) of searchTemplates and what follows it
TemplateFanIn(phase, st, errs, contents, culprit) ==
    LET outcome == PromiseAll(st, Range(TemplateOrder))
    IN  IF phase # "searching"
        THEN UNCHANGED <<tsPhase, tsError, tsResult>>
        ELSE IF outcome = "rejected"
        THEN /\ tsPhase' = "failed"
             /\ tsError' = errs[culprit]
             /\ UNCHANGED tsResult
        ELSE IF outcome = "fulfilled"
        THEN /\ tsPhase' = "returned"
             /\ tsResult' = BuildTemplateContext(contents)
             /\ UNCHANGED tsError
        ELSE /\ tsPhase' = "searching"
             /\ UNCHANGED <<tsError, tsResult>>

\* the code of searchTemplates() up to its first await: every lookup runs
\* up to its first await, then Promise.all is awaited
SearchTemplatesBegins ==
    LET call(t) == generateEmbeddingCall(TemplateQueryOf(t).query, genAI, env)
        st == [t \in TemplateNames |-> IF call(t).issued THEN "embedding" ELSE "failed"]
        errs == [t \in TemplateNames |-> IF call(t).issued THEN NoError ELSE call(t).error]
        contents == [t \in TemplateNames |-> <<>>]
    IN  /\ tsPhase \in {"idle", "returned", "failed"}
        /\ slot' = st
        /\ slotError' = errs
        /\ slotContent' = contents
        /\ genAI' = (genAI \/ \E t \in TemplateNames : call(t).issued)
        /\ genAIBuilt' = genAIBuilt + GenAIBuilds(Len(TemplateOrder), genAI, env)
        /\ IF \E t \in TemplateNames : st[t] = "failed"
           THEN /\ tsPhase' = "failed"
                /\ tsError' = errs[FirstFailed(st, TemplateOrder)]
                /\ tsResult' = NoValue
           ELSE /\ tsPhase' = "searching"
                /\ tsError' = NoError
                /\ tsResult' = NoValue

\* searchTemplates() is called
SearchTemplates ==
    /\ SearchTemplatesBegins
    /\ UNCHANGED <<handlerVars, serverVars, authVars, promptVars, detectorVars, parserVars,
                   searchVars, env, supabase, supabaseBuilt, devApps>>

\* embedContent answers the lookup of template t with response:
\* searchSimilarContexts builds or reuses the client and sends its rpc, or
\* the lookup throws
TemplateEmbedRespondsWith(t, response) ==
    /\ slot[t] = "embedding"
    /\ LET r  == generateEmbeddingResult(response)
           c  == getSupabaseClient(supabase, env)
           st == [slot EXCEPT ![t] = IF r.ok /\ c.ok THEN "searching" ELSE "failed"]
           errs == [slotError EXCEPT ![t] = IF ~r.ok THEN r.error
                                            ELSE IF ~c.ok THEN c.error ELSE @]
       IN  /\ slot' = st
           /\ slotError' = errs
           /\ supabase' = (supabase \/ (r.ok /\ c.ok))
           /\ supabaseBuilt' = supabaseBuilt + (IF r.ok THEN Constructions(c) ELSE 0)
           /\ TemplateFanIn(tsPhase, st, errs, slotContent, t)
    /\ UNCHANGED <<handlerVars, serverVars, authVars, promptVars, detectorVars, parserVars, searchVars, env, genAI,
                   genAIBuilt, devApps, slotContent>>

\* embedContent answers the lookup of template t
TemplateEmbedResponds(t) ==
    \E response \in EmbedAnswers : TemplateEmbedRespondsWith(t, response)

\* match_dev_contexts answers the lookup of template t with response
TemplateSearchRespondsWith(t, response) ==
    /\ slot[t] = "searching"
    /\ LET r  == searchSimilarContextsResult(response)
           st == [slot EXCEPT ![t] = IF r.ok THEN "done" ELSE "failed"]
           errs == [slotError EXCEPT ![t] = IF r.ok THEN @ ELSE r.error]
           contents == [slotContent EXCEPT ![t] =
                           IF r.ok THEN TemplateContentOf(r.results) ELSE @]
       IN  /\ slot' = st
           /\ slotError' = errs
           /\ slotContent' = contents
           /\ TemplateFanIn(tsPhase, st, errs, contents, t)
    /\ UNCHANGED <<handlerVars, serverVars, authVars, promptVars, detectorVars, parserVars, searchVars, clientVars>>

\* match_dev_contexts answers the lookup of template t
TemplateSearchResponds(t) ==
    \E response \in SearchAnswers(TemplateSearchCall(t)) :
        TemplateSearchRespondsWith(t, response)

TemplateInit ==
    /\ ParserIdle
    /\ env \in Environments
    /\ supabase = FALSE
    /\ genAI = FALSE
    /\ supabaseBuilt = 0
    /\ genAIBuilt = 0
    /\ devApps = [k \in Range(AppKeys) |-> "active"]
    /\ SearchIdle
    /\ TemplatesIdle
    /\ ServerOff
    /\ HandlersIdle
    /\ AuthIdle
    /\ DetectorIdle
    /\ PromptIdle

TemplateNext ==
    \/ SearchTemplates
    \/ \E t \in TemplateNames : TemplateEmbedResponds(t)
    \/ \E t \in TemplateNames : TemplateSearchResponds(t)

TemplateSpec == TemplateInit /\ [][TemplateNext]_vars

(***************************************************************************)
(* Properties of TemplateSearcher.searchTemplates.                         *)
(***************************************************************************)
\* C10: the failure of one template lookup is isolated to its slot: when
\* one lookup has failed and the other two have produced their content, the
\* call has returned a bundle in which those two slots carry that content.
C10_SlotFailureIsolated ==
    \A t \in TemplateNames :
        (/\ slot[t] = "failed"
         /\ \A u \in TemplateNames \ {t} : slot[u] = "done" /\ slotContent[u] # <<>>) =>
            /\ tsPhase = "returned"
            /\ \A u \in TemplateNames \ {t} : tsResult[u] = slotContent[u]

\* the literal placeholder a template slot holds when nothing was found
NotFoundPlaceholder(t) ==
    IF t = "prdTemplate"
    THEN <<"# PRD Template\n\n*Template not found in embeddings. Using fallback.*">>
    ELSE IF t = "tasksTemplate"
    THEN <<"# Tasks Template\n\n*Template not found in embeddings. Using fallback.*">>
    ELSE <<"# Subtasks Template\n\n*Template not found in embeddings. Using fallback.*">>

ParserInit ==
    /\ cmd \in Commands
    /\ parsed = NoValue
    /\ ppc = "input"
    /\ ClientsUnused
    /\ SearchIdle
    /\ TemplatesIdle
    /\ ServerOff
    /\ HandlersIdle
    /\ AuthIdle
    /\ DetectorIdle
    /\ PromptIdle

ParseCommand ==
    /\ ppc = "input"
    /\ parsed' = parseCommand(cmd)
    /\ ppc' = "parsed"
    /\ UNCHANGED <<handlerVars, serverVars, authVars, promptVars, detectorVars, cmd, clientVars, searchVars, templateVars>>

ParserNext == ParseCommand

ParserSpec == ParserInit /\ [][ParserNext]_vars

(***************************************************************************)
(* Properties of the command parser.                                       *)
(***************************************************************************)
\* the words of s: its maximal runs of characters that are not separators,
\* where a separator is whitespace (mode "space") or a non-word character
\* (mode "word")
IsSeparator(c, mode) == IF mode = "space" THEN IsSpace(c) ELSE ~IsWordChar(c)

TokenEnd(s, i, mode) ==
    CHOOSE j \in i..Len(s) :
        /\ \A k \in i..j : ~IsSeparator(s[k], mode)
        /\ j = Len(s) \/ IsSeparator(s[j + 1], mode)

RECURSIVE TokensFrom(_, _, _)
TokensFrom(s, i, mode) ==
    IF i > Len(s) THEN <<>>
    ELSE IF IsSeparator(s[i], mode) THEN TokensFrom(s, i + 1, mode)
    ELSE <<SubSeq(s, i, TokenEnd(s, i, mode))>>
             \o TokensFrom(s, TokenEnd(s, i, mode) + 1, mode)

SpaceTokens(s) == TokensFrom(s, 1, "space")

WordTokens(s) == TokensFrom(s, 1, "word")

RECURSIVE JoinWithSpace(_)
JoinWithSpace(tokens) ==
    IF tokens = <<>> THEN <<>>
    ELSE IF Len(tokens) = 1 THEN tokens[1]
    ELSE tokens[1] \o <<" ">> \o JoinWithSpace(Tail(tokens))

ActionKeywords == UNION {Range(TOOL_PATTERNS[p]) : p \in 1..Len(TOOL_PATTERNS)}

ScopeKeywords == UNION {Range(SCOPE_PATTERNS[p]) : p \in 1..Len(SCOPE_PATTERNS)}

IsBlank(s) == \A i \in 1..Len(s) : IsSpace(s[i])

\* the scope keywords that stand in s as whole words, lower-cased, in order
ScopeWords(s) ==
    SelectSeq([i \in 1..Len(WordTokens(s)) |-> ToLowerCase(WordTokens(s)[i])],
              LAMBDA w : w \in ScopeKeywords)

\* the action keywords that stand in s as whitespace-delimited words
ActionWords(s) ==
    {ToLowerCase(SpaceTokens(s)[i]) : i \in 1..Len(SpaceTokens(s))}
        \cap ActionKeywords

\* s starts with an action keyword that whitespace and more text follow
HasActionPrefix(s) ==
    /\ Len(SpaceTokens(s)) >= 2
    /\ ToLowerCase(SpaceTokens(s)[1]) \in ActionKeywords

\* C1: parseCommand returns a value with the four fields for every input, and
\* for an empty or whitespace-only input that value is exactly
\* {tool "dev", scope "global", requirements "", raw ""}.
C1_ParseNeverFails ==
    ppc = "parsed" =>
        /\ DOMAIN parsed = {"tool", "scope", "requirements", "raw"}
        /\ IsBlank(cmd) =>
               parsed = [tool         |-> <<"d","e","v">>,
                         scope        |-> <<"g","l","o","b","a","l">>,
                         requirements |-> <<>>,
                         raw          |-> <<>>]

C1_Witness == ppc = "parsed" /\ cmd # <<>> /\ IsBlank(cmd)

\* C2 as claimed: a command that holds an action keyword and a scope keyword,
\* wherever they stand, is parsed to that action and that scope.
C2_KeywordsAnywhere ==
    (ppc = "parsed" /\ ActionWords(cmd) # {} /\ ScopeWords(cmd) # <<>>) =>
        /\ parsed.tool \in ActionWords(cmd)
        /\ parsed.scope \in Range(ScopeWords(cmd))

\* C2 as amended: a command that starts with an action keyword followed by
\* whitespace, and holds a scope keyword as a whole word, is parsed to that
\* action and to the leftmost such scope, both lower-cased, whatever their
\* letter case and the other words; an action keyword that does not start the
\* command is not recognized and the action is "dev".
C2_PrefixActionAndFirstScope ==
    (ppc = "parsed" /\ ScopeWords(cmd) # <<>>) =>
        /\ parsed.scope = ScopeWords(cmd)[1]
        /\ HasActionPrefix(cmd) =>
               parsed.tool = ToLowerCase(SpaceTokens(cmd)[1])
        /\ ~HasActionPrefix(cmd) => parsed.tool = <<"d","e","v">>

C2_Witness ==
    /\ ppc = "parsed"
    /\ HasActionPrefix(cmd)
    /\ Len(ScopeWords(cmd)) >= 1
    /\ SpaceTokens(cmd)[1] # parsed.tool
    /\ parsed.scope \notin Range(WordTokens(cmd))
    /\ parsed.requirements # parsed.raw

NothingRecognized(s) == ~ToolMatch(Trim(s)).found /\ ~ScopeMatch(Trim(s)).found

\* C3 as claimed: with no action prefix and no scope token recognized, the
\* requirement is the trimmed input, character for character.
C3_RequirementIsTrimmedInput ==
    (ppc = "parsed" /\ NothingRecognized(cmd)) =>
        /\ parsed.tool = <<"d","e","v">>
        /\ parsed.scope = <<"g","l","o","b","a","l">>
        /\ parsed.requirements = Trim(cmd)

\* C3 as amended: with no action prefix and no scope token recognized, the
\* action is "dev", the scope is "global" and the requirement is the trimmed
\* input with every run of whitespace replaced by one space.
C3_RequirementIsCollapsedInput ==
    (ppc = "parsed" /\ NothingRecognized(cmd)) =>
        /\ parsed.tool = <<"d","e","v">>
        /\ parsed.scope = <<"g","l","o","b","a","l">>
        /\ parsed.requirements = JoinWithSpace(SpaceTokens(cmd))

C3_Witness ==
    /\ ppc = "parsed"
    /\ NothingRecognized(cmd)
    /\ Len(SpaceTokens(cmd)) >= 2
    /\ parsed.requirements # Trim(cmd)


\* C20: parsing the raw field of a parse result gives the same result again:
\* parseCommand(parseCommand(x).raw) equals parseCommand(x) in tool, scope,
\* requirements and raw.
C20_ParseOfRawIsSameParse ==
    ppc = "parsed" =>
        /\ parseCommand(parsed.raw).tool = parsed.tool
        /\ parseCommand(parsed.raw).scope = parsed.scope
        /\ parseCommand(parsed.raw).requirements = parsed.requirements
        /\ parseCommand(parsed.raw).raw = parsed.raw

C20_Witness ==
    /\ ppc = "parsed"
    /\ parsed.raw # cmd
    /\ ToolMatch(parsed.raw).found
    /\ ScopeMatch(parsed.raw).found
    /\ parsed.requirements # <<>>
    /\ parsed.requirements # parsed.raw
    /\ parseCommand(parsed.raw) = parsed

\* C24: for every input, the action and the scope parseCommand returns are
\* not empty: the action is "dev" or the lower-cased action word matched at
\* the start of the input, and the scope is one of rac, partners, global,
\* web, mobile, suppliers, notifications and queues.
C24_ActionAndScopeNeverEmpty ==
    ppc = "parsed" =>
        /\ parsed.tool # <<>>
        /\ parsed.scope # <<>>
        /\ \/ parsed.tool = <<"d","e","v">>
           \/ /\ HasActionPrefix(cmd)
              /\ parsed.tool = ToLowerCase(SpaceTokens(cmd)[1])
        /\ parsed.scope \in
               {<<"r","a","c">>, <<"p","a","r","t","n","e","r","s">>,
                <<"g","l","o","b","a","l">>, <<"w","e","b">>,
                <<"m","o","b","i","l","e">>,
                <<"s","u","p","p","l","i","e","r","s">>,
                <<"n","o","t","i","f","i","c","a","t","i","o","n","s">>,
                <<"q","u","e","u","e","s">>}

\* an action word and a scope word written with capitals were recognized
C24_Witness ==
    /\ ppc = "parsed"
    /\ HasActionPrefix(cmd)
    /\ parsed.tool = <<"t","e","s","t">>
    /\ SpaceTokens(cmd)[1] = <<"T","e","s","t">>
    /\ parsed.scope = <<"w","e","b">>
    /\ <<"W","E","B">> \in Range(WordTokens(cmd))

\* the whitespace-delimited words of the command behind its action prefix
RestTokens(s) ==
    IF HasActionPrefix(s) THEN Tail(SpaceTokens(s)) ELSE SpaceTokens(s)

\* removing the action prefix and the scope token leaves nothing: every
\* word behind the action prefix is the recognized scope
LeavesNothing(s) ==
    /\ ScopeWords(s) # <<>>
    /\ \A i \in 1..Len(RestTokens(s)) :
           ToLowerCase(RestTokens(s)[i]) = ScopeWords(s)[1]

\* C25: the requirement parseCommand returns is empty only when the trimmed
\* input is empty: whenever removing the action prefix and the scope token
\* leaves nothing, the requirement is the entire trimmed input.
C25_RequirementFallsBackToInput ==
    ppc = "parsed" =>
        /\ parsed.requirements = <<>> => Trim(cmd) = <<>>
        /\ (Trim(cmd) # <<>> /\ LeavesNothing(cmd)) =>
               parsed.requirements = Trim(cmd)

\* a command made of an action prefix and a scope only
C25_Witness ==
    /\ ppc = "parsed"
    /\ HasActionPrefix(cmd)
    /\ LeavesNothing(cmd)
    /\ parsed.scope = <<"r","a","c">>
    /\ parsed.requirements # <<>>
    /\ parsed.requirements = Trim(cmd)
(***************************************************************************)
(* CracRulesDetector.detectRules as a state machine: one call on a context.*)
(***************************************************************************)
DetectorInit ==
    /\ ParserIdle
    /\ ClientsUnused
    /\ SearchIdle
    /\ TemplatesIdle
    /\ ServerOff
    /\ HandlersIdle
    /\ AuthIdle
    /\ PromptIdle
    /\ ruleContext \in RuleContexts
    /\ ruleTypes = <<>>
    /\ dpc = "input"

DetectRules ==
    /\ dpc = "input"
    /\ ruleTypes' = detectRules(ruleContext)
    /\ dpc' = "detected"
    /\ UNCHANGED <<handlerVars, serverVars, authVars, promptVars, ruleContext, parserVars, clientVars, searchVars, templateVars>>

DetectorNext == DetectRules

DetectorSpec == DetectorInit /\ [][DetectorNext]_vars

(***************************************************************************)
(* Properties of CracRulesDetector.detectRules.                            *)
(***************************************************************************)
RuleTypesOfPatterns == {TESTING, STRUCTURE, ENDPOINTS, CODE_STYLE}

\* the context is undefined, empty or made of whitespace only
BlankContext ==
    ruleContext = Null \/ \A i \in 1..Len(ruleContext[1]) : ruleContext[1][i] \in SpaceChars

\* the keyword occurs in the lower-cased context
Occurs(keyword) ==
    LET s == ToLowerCase(ruleContext[1])
    IN  \E i \in 1..(Len(s) - Len(keyword) + 1) :
            SubSeq(s, i, i + Len(keyword) - 1) = keyword

KeywordsOf(type) ==
    Range(patterns[CHOOSE i \in 1..Len(patterns) : patterns[i].type = type].keywords)

\* the keywords of a rule type that occur in the context
MatchedKeywords(type) == {k \in KeywordsOf(type) : Occurs(k)}

\* the keyword-match count of a rule type: its distinct matching keywords
MatchCount(type) == Cardinality(MatchedKeywords(type))

MatchedTypes == {t \in RuleTypesOfPatterns : MatchCount(t) > 0}

\* C12: detectRules returns exactly [ALL] for an undefined, empty or blank
\* context and for a context in which no keyword of any rule type occurs;
\* otherwise the list is non-empty, without duplicates and without ALL.
C12_AllOnlyWithoutMatches ==
    dpc = "detected" =>
        IF BlankContext \/ MatchedTypes = {}
        THEN ruleTypes = <<ALL>>
        ELSE /\ Len(ruleTypes) >= 1
             /\ \A i, j \in 1..Len(ruleTypes) : ruleTypes[i] = ruleTypes[j] => i = j
             /\ \A i \in 1..Len(ruleTypes) : ruleTypes[i] \in MatchedTypes

C12_Witness ==
    /\ dpc = "detected"
    /\ ~BlankContext
    /\ MatchedTypes = {}
    /\ ruleTypes = <<ALL>>

\* C13: the list detectRules returns is ordered by descending keyword-match
\* count, with the strictly highest type first (TESTING for the jest unit
\* tests sentence), and holds exactly the matched types at rank 1 or 2 or
\* with a count of at least 2.
C13_TopTwoOrScoreTwo ==
    (dpc = "detected" /\ ~BlankContext /\ MatchedTypes # {}) =>
        /\ \A i, j \in 1..Len(ruleTypes) :
               i < j => MatchCount(ruleTypes[i]) >= MatchCount(ruleTypes[j])
        /\ \A t \in MatchedTypes :
               (\A u \in MatchedTypes \ {t} : MatchCount(t) > MatchCount(u)) =>
                   ruleTypes[1] = t
        /\ ruleContext = Some(JestSentence) => ruleTypes[1] = TESTING
        /\ Range(ruleTypes) \subseteq MatchedTypes
        /\ Len(ruleTypes) >= (IF Cardinality(MatchedTypes) >= 2 THEN 2 ELSE 1)
        /\ \A t \in MatchedTypes : MatchCount(t) >= 2 => t \in Range(ruleTypes)
        /\ \A i \in 3..Len(ruleTypes) : MatchCount(ruleTypes[i]) >= 2
        /\ \A t \in MatchedTypes \ Range(ruleTypes) :
               \A i \in 1..Len(ruleTypes) : MatchCount(ruleTypes[i]) >= MatchCount(t)


\* the score the scoring loop of detectRules gives a rule type for the
\* context of the call
ScoreOfType(type) ==
    LET scores == Scores(ToLowerCase(ruleContext[1]))
    IN  scores[CHOOSE i \in 1..Len(scores) : scores[i].type = type].score

\* C23: the score detectRules gives a rule type is the number of distinct
\* keywords of that type that occur as substrings of the lower-cased
\* context: a keyword contributes at most 1, however the keyword list is
\* written.
C23_ScoreCountsDistinctKeywords ==
    (dpc = "detected" /\ ruleContext # Null) =>
        \A t \in RuleTypesOfPatterns : ScoreOfType(t) = MatchCount(t)

\* the context "code style": one distinct CODE_STYLE keyword occurs, and the
\* scoring loop counts it twice
C23_ListedTwiceCountsTwice ==
    /\ dpc = "detected"
    /\ ruleContext = Some(<<"c", "o", "d", "e", " ", "s", "t", "y", "l", "e">>)
    /\ MatchedKeywords(CODE_STYLE) = {<<"c", "o", "d", "e", " ", "s", "t", "y", "l", "e">>}
    /\ ScoreOfType(CODE_STYLE) = 2
(***************************************************************************)
(* PromptBuilder.buildPrompt as a state machine. The arguments are a       *)
(* ParsedCommand and a RAGContext that searchContext can return for it.    *)
(***************************************************************************)
PromptCommands ==
    [tool : {"dev", "test"}, scope : {"rac", "global"},
     requirements : {"add booking search"}, raw : {"add booking search"}]

\* the rows an aspect query of the command can have found: none, or one
AspectRows(command, a) ==
    LET qs == Queries(command.requirements, command.scope, command.tool)
        q  == qs[CHOOSE i \in 1..Len(qs) : qs[i].aspect = a]
    IN  {<<>>, <<MapRow(BackendRow(q, 1))>>}

PromptContexts(command) ==
    {BuildRagContext(AspectNames, results) :
        results \in {r \in [AspectNames -> UNION {AspectRows(command, a) : a \in AspectNames}] :
                        \A a \in AspectNames : r[a] \in AspectRows(command, a)}}

\* how contextSearcher.searchRules("", [ContentCategory.RULES.CRAC], 5) can
\* end: it rejects, or resolves with a text
RulesAnswers ==
    {[called |-> TRUE, threw |-> TRUE, error |-> Error(<<"Failed to search rules">>)],
     [called |-> TRUE, threw |-> FALSE, content |-> <<>>],
     [called |-> TRUE, threw |-> FALSE, content |-> <<" ">>],
     [called |-> TRUE, threw |-> FALSE,
      content |-> <<"--- CRAC rules (global/rules/crac) ---\n", "Use pnpm workspaces.">>]}

\* buildPrompt ends: with the StructuredPrompt, or with an error
PromptSettles(fetch) ==
    LET r == buildPrompt(pbCommand, pbContext, fetch)
    IN  /\ pbFetch' = fetch
        /\ IF r.ok
           THEN pbPhase' = "built" /\ pbPrompt' = r.prompt /\ UNCHANGED pbError
           ELSE pbPhase' = "failed" /\ pbError' = r.error /\ UNCHANGED pbPrompt

\* the code of buildPrompt up to its first await: buildSystemPrompt runs up
\* to its await on searchRules, or to its end when no contextSearcher is set
BuildPromptBegins ==
    IF pbSearcher
    THEN pbPhase' = "fetchingRules" /\ UNCHANGED <<pbFetch, pbPrompt, pbError>>
    ELSE LET r == buildPrompt(pbCommand', pbContext', [called |-> FALSE])
         IN  /\ pbFetch' = [called |-> FALSE]
             /\ pbPhase' = "built"
             /\ pbPrompt' = r.prompt
             /\ UNCHANGED pbError

\* buildPrompt(command, ragContext) is called
BuildPrompt ==
    /\ pbPhase = "input"
    /\ UNCHANGED <<handlerVars, serverVars, authVars, pbCommand, pbContext, pbSearcher, parserVars,
                   clientVars, searchVars, templateVars, detectorVars>>
    /\ BuildPromptBegins

\* searchRules settles with answer and buildPrompt runs to its end
RulesFetchRespondsWith(answer) ==
    /\ pbPhase = "fetchingRules"
    /\ PromptSettles(answer)
    /\ UNCHANGED <<handlerVars, serverVars, authVars, pbCommand, pbContext, pbSearcher, parserVars, clientVars,
                   searchVars, templateVars, detectorVars>>

\* searchRules settles and buildPrompt runs to its end
RulesFetchResponds == \E answer \in RulesAnswers : RulesFetchRespondsWith(answer)

PromptInit ==
    /\ ParserIdle
    /\ ClientsUnused
    /\ SearchIdle
    /\ TemplatesIdle
    /\ ServerOff
    /\ HandlersIdle
    /\ AuthIdle
    /\ DetectorIdle
    /\ pbCommand \in PromptCommands
    /\ pbContext \in PromptContexts(pbCommand)
    /\ pbSearcher \in BOOLEAN
    /\ pbPhase = "input"
    /\ pbFetch = [called |-> FALSE]
    /\ pbPrompt = NoValue
    /\ pbError = NoError

PromptNext == BuildPrompt \/ RulesFetchResponds

PromptSpec == PromptInit /\ [][PromptNext]_vars

(***************************************************************************)
(* Properties of PromptBuilder.                                            *)
(***************************************************************************)
\* the pieces of block occur in text, one after the other, from position i
BlockAt(text, block, i) ==
    /\ i + Len(block) - 1 <= Len(text)
    /\ \A j \in 1..Len(block) : text[i + j - 1] = block[j]

ContainsBlock(text, block) == \E i \in 1..Len(text) : BlockAt(text, block, i)

\* the piece occurs in text, and the pieces of content occur after it
FollowedBy(text, piece, content) ==
    \E i \in 1..Len(text) :
        /\ text[i] = piece
        /\ \E j \in (i + 1)..Len(text) : BlockAt(text, content, j)

\* a block of the system prompt under its heading: the retrieved field when
\* it is not empty, and the fallback copy (whose body follows the shared
\* heading) exactly when it is empty
OneOfRetrievedAndFallback(system, heading, field, fallback) ==
    /\ fallback[1] = heading
    /\ Cardinality({i \in 1..Len(system) : system[i] = heading}) = 1
    /\ IF field = <<>>
       THEN ContainsBlock(system, fallback)
       ELSE /\ ContainsBlock(system, <<heading>> \o field \o <<"\n\n">>)
            /\ ~ContainsBlock(system, Tail(fallback))

\* C14: with technology, folderStructure and conventions all empty the
\* system section holds the three fixed fallback blocks; and for each of
\* the three blocks exactly one of the retrieved content and the fallback
\* copy is emitted, the fallback exactly when the field is empty.
C14_FallbackExactlyWhenEmpty ==
    pbPhase = "built" =>
        /\ OneOfRetrievedAndFallback(pbPrompt.system, "## Technical Context\n\n",
                                     pbContext.technology, FallbackTechnology)
        /\ OneOfRetrievedAndFallback(pbPrompt.system, "## Project Structure\n\n",
                                     pbContext.folderStructure, FallbackStructure)
        /\ OneOfRetrievedAndFallback(pbPrompt.system, "## Code Conventions\n\n",
                                     pbContext.conventions, FallbackConventions)

C14_Witness ==
    /\ pbPhase = "built"
    /\ pbContext.technology = <<>>
    /\ pbContext.folderStructure = <<>>
    /\ pbContext.conventions = <<>>
    /\ ContainsBlock(pbPrompt.system, FallbackTechnology)
    /\ ContainsBlock(pbPrompt.system, FallbackStructure)
    /\ ContainsBlock(pbPrompt.system, FallbackConventions)

\* C15: the user section holds the "Similar Examples" heading, followed
\* later by the examples content, when the examples field is not empty, and
\* no such heading and no examples section at all when it is empty.
C15_ExamplesOnlyWhenPresent ==
    pbPhase = "built" =>
        IF pbContext.examples # <<>>
        THEN FollowedBy(pbPrompt.user, "## Similar Examples\n\n", pbContext.examples)
        ELSE /\ \A i \in 1..Len(pbPrompt.user) : pbPrompt.user[i] # "## Similar Examples\n\n"
             /\ pbPrompt.user = TaskSection(pbCommand) \o ImplementationInstructions

C15_Witness ==
    /\ pbPhase = "built"
    /\ pbContext.examples # <<>>
    /\ FollowedBy(pbPrompt.user, "## Similar Examples\n\n", pbContext.examples)

\* C16: a failure of the nested rules fetch never escalates: buildPrompt
\* ends with a prompt that has every other system block and the user
\* section, and no mandatory-rules block.
C16_RulesFetchFailureSwallowed ==
    (pbFetch.called /\ pbFetch.threw) =>
        /\ pbPhase = "built"
        /\ pbPrompt.system =
               RoleStatement(pbCommand) \o ContextInformation(pbCommand)
                   \o MonorepoStructure \o TechnicalContext(pbContext)
                   \o ProjectStructure(pbContext) \o CodeConventions(pbContext)
                   \o DevelopmentPrinciples
        /\ \A i \in 1..Len(pbPrompt.system) :
               pbPrompt.system[i] # "## CRAC Monorepo Rules and Conventions\n\n"
        /\ pbPrompt.user = buildUserPrompt(pbCommand, pbContext)

C16_Witness ==
    /\ pbFetch.called
    /\ pbFetch.threw
    /\ pbPhase = "built"
    /\ ContainsBlock(pbPrompt.system, DevelopmentPrinciples)

(***************************************************************************)
(* Startup of the HTTP server process: validateEnvVars, then listen.       *)
(***************************************************************************)
\* the required array of validateEnvVars
RequiredEnvVars == <<"SUPABASE_URL", "SUPABASE_SERVICE_ROLE_KEY", "GEMINI_API_KEY">>

\* a validation that does not trim the values
MissingEnvVarsWithoutTrim(e) ==
    SelectSeq(RequiredEnvVars, LAMBDA key : IsFalsy(e[key]))

\* the missing array of validateEnvVars:
\* !process.env[key] || process.env[key]?.trim() === ""
MissingEnvVars(e) ==
    SelectSeq(RequiredEnvVars, LAMBDA key : IsMissing(e[key]))

\* validateEnvVars(): the error it throws, or none
validateEnvVars(e) ==
    IF Len(MissingEnvVars(e)) > 0
    THEN [ok |-> FALSE,
          error |-> Error(<<"Missing required environment variables: ">>
                              \o Join([i \in 1..Len(MissingEnvVars(e)) |->
                                          <<MissingEnvVars(e)[i]>>], <<", ">>)
                              \o <<"\n",
                                   "Please set the following environment variables:\n",
                                   "- SUPABASE_URL\n",
                                   "- SUPABASE_SERVICE_ROLE_KEY\n",
                                   "- GEMINI_API_KEY">>)]
    ELSE [ok |-> TRUE]

\* the environments a process can be started in
StartupEnvironments ==
    [SUPABASE_URL : {"unset", "empty", "blank", "malformed", "ok"},
     SUPABASE_SERVICE_ROLE_KEY : {"unset", "empty", "blank", "ok"},
     GEMINI_API_KEY : {"unset", "empty", "blank", "ok"}]

MaxRequests == 2

\* the module body up to createMcpServer(): validation, or process.exit(1)
ServerStartup ==
    /\ srvPhase = "starting"
    /\ srvPhase' = IF validateEnvVars(env).ok THEN "configured" ELSE "exited"
    /\ UNCHANGED <<handlerVars, authVars, srvServed, parserVars, clientVars, searchVars, templateVars,
                   detectorVars, promptVars>>

\* app.listen(PORT, ...) succeeds
ServerListens ==
    /\ srvPhase = "configured"
    /\ srvPhase' = "listening"
    /\ UNCHANGED <<handlerVars, authVars, srvServed, parserVars, clientVars, searchVars, templateVars,
                   detectorVars, promptVars>>

\* app.listen emits "error": process.exit(1)
ServerListenFails ==
    /\ srvPhase = "configured"
    /\ srvPhase' = "exited"
    /\ UNCHANGED <<handlerVars, authVars, srvServed, parserVars, clientVars, searchVars, templateVars,
                   detectorVars, promptVars>>

\* a request reaches a route of the listening server
ServerServes ==
    /\ srvPhase = "listening"
    /\ srvServed < MaxRequests
    /\ srvServed' = srvServed + 1
    /\ UNCHANGED <<handlerVars, authVars, srvPhase, parserVars, clientVars, searchVars, templateVars,
                   detectorVars, promptVars>>

ServerInit ==
    /\ ParserIdle
    /\ env \in StartupEnvironments
    /\ supabase = FALSE
    /\ genAI = FALSE
    /\ supabaseBuilt = 0
    /\ genAIBuilt = 0
    /\ devApps = [k \in Range(AppKeys) |-> "active"]
    /\ SearchIdle
    /\ TemplatesIdle
    /\ DetectorIdle
    /\ PromptIdle
    /\ HandlersIdle
    /\ AuthIdle
    /\ srvPhase = "starting"
    /\ srvServed = 0

ServerNext ==
    \/ ServerStartup
    \/ ServerListens
    \/ ServerListenFails
    \/ ServerServes

ServerSpec == ServerInit /\ [][ServerNext]_vars

\* a variable of the environment is unset, empty or whitespace-only
SomeEnvVarMissing ==
    \E key \in {"SUPABASE_URL", "SUPABASE_SERVICE_ROLE_KEY", "GEMINI_API_KEY"} :
        env[key] \in {"unset", "empty", "blank"}

\* C19: with SUPABASE_URL, SUPABASE_SERVICE_ROLE_KEY or GEMINI_API_KEY
\* unset, empty or whitespace-only the server never listens and never
\* serves a request: validation fails and the process exits first.
C19_NoListenWithoutEnv ==
    SomeEnvVarMissing =>
        /\ srvPhase \in {"starting", "exited"}
        /\ srvServed = 0

C19_Witness ==
    /\ env.SUPABASE_URL = "ok"
    /\ env.SUPABASE_SERVICE_ROLE_KEY = "ok"
    /\ env.GEMINI_API_KEY = "blank"
    /\ srvPhase = "exited"

(***************************************************************************)
(* The handlers as a state machine: one request to one of dev_task,        *)
(* generate_tasks and get_crac_rules. A step of a handler is the code      *)
(* between two awaits. The continuation of a settled await runs before     *)
(* the callback of any further answer of a backend.                        *)
(***************************************************************************)
HandlerCommands ==
    {Null, Some(<<>>), Some(<<" ", "\t">>),
     Some(<<"d", "e", "v", " ", "r", "a", "c", " ", "a", "d", "d", " ", "b", "o", "o", "k", "i", "n", "g", " ", "s", "e", "a", "r", "c", "h">>),
     Some(<<"g", "e", "n", " ", "r", "a", "c", " ", "a", "d", "d", " ", "b", "o", "o", "k", "i", "n", "g", " ", "s", "e", "a", "r", "c", "h">>),
     Some(<<"r", "a", "c">>)}

HandlerRuleContexts ==
    {Null, Some(<<>>), Some(JestSentence)} \cup {Some(s) : s \in Sentences(1)}

HandlerEnvironments ==
    [SUPABASE_URL              : {"unset", "ok"},
     SUPABASE_SERVICE_ROLE_KEY : {"ok"},
     GEMINI_API_KEY            : {"empty", "ok"}]

\* dev_task is called with a command
DevTask(command) ==
    /\ hPhase = "idle"
    /\ hOp' = "dev_task"
    /\ hArg' = command
    /\ IF IsBlankCommand(command)
       THEN /\ hText' = DevTaskEmptyCommand
            /\ hPhase' = "returned"
            /\ UNCHANGED <<parserVars, searchVars, supabase, supabaseBuilt>>
       ELSE /\ cmd' = command[1]
            /\ parsed' = parseCommand(command[1])
            /\ ppc' = "parsed"
            /\ SearchContextBegins(RequestOf(parseCommand(command[1])))
            /\ hPhase' = "awaitingContext"
            /\ UNCHANGED hText
    /\ UNCHANGED <<hRulesCall, hThrown, templateVars, detectorVars, promptVars,
                   serverVars, authVars, env, genAI, genAIBuilt, devApps>>

\* dev_task after its await on searchContext: the catch block, or the
\* buildPrompt call and the combined prompt
DevTaskContinues ==
    /\ hOp = "dev_task"
    /\ hPhase = "awaitingContext"
    /\ scPhase \in {"returned", "failed"}
    /\ hPhase' = "returned"
    /\ IF scPhase = "failed"
       THEN /\ hText' = DevTaskErrorText(scError)
            /\ UNCHANGED promptVars
       ELSE /\ hText' = CombinedPrompt(scResult, TextOf(parsed.scope))
            /\ pbCommand' = CommandOf(parsed)
            /\ pbContext' = scResult
            /\ BuildPromptBegins
            /\ UNCHANGED pbSearcher
    /\ UNCHANGED <<hOp, hArg, hRulesCall, hThrown, parserVars, clientVars, searchVars,
                   templateVars, detectorVars, serverVars, authVars>>

\* generate_tasks is called with a command
GenerateTasks(command) ==
    /\ hPhase = "idle"
    /\ hOp' = "generate_tasks"
    /\ hArg' = command
    /\ IF IsBlankCommand(command)
       THEN /\ hText' = GenerateTasksEmptyCommand
            /\ hPhase' = "returned"
            /\ UNCHANGED <<parserVars, searchVars, templateVars, supabase, genAI,
                           supabaseBuilt, genAIBuilt>>
       ELSE /\ cmd' = command[1]
            /\ parsed' = NormalizeTool(parseCommand(command[1]))
            /\ ppc' = "parsed"
            /\ SearchTemplatesBegins
            /\ SearchContextBegins(RequestOf(NormalizeTool(parseCommand(command[1]))))
            /\ hPhase' = "awaitingAll"
            /\ UNCHANGED hText
    /\ UNCHANGED <<hRulesCall, hThrown, detectorVars, promptVars, serverVars, authVars, env,
                   devApps>>

\* generate_tasks after its await on Promise.all: the catch block with the
\* error of the call that rejected first, or the task generation prompt.
\* When both calls rejected before the await, either error can be the first.
GenerateTasksContinues ==
    /\ hOp = "generate_tasks"
    /\ hPhase = "awaitingAll"
    /\ \/ /\ tsPhase = "failed"
          /\ hText' = GenerateTasksErrorText(tsError)
       \/ /\ scPhase = "failed"
          /\ hText' = GenerateTasksErrorText(scError)
       \/ /\ tsPhase = "returned"
          /\ scPhase = "returned"
          /\ hText' = buildTaskGenerationPrompt(CommandOf(parsed), tsResult, scResult)
    /\ hPhase' = "returned"
    /\ UNCHANGED <<hOp, hArg, hRulesCall, hThrown, parserVars, clientVars, searchVars,
                   templateVars, detectorVars, promptVars, serverVars, authVars>>

\* get_crac_rules is called: getRules runs up to its await on searchRules
GetCracRules(context) ==
    /\ hPhase = "idle"
    /\ hOp' = "get_crac_rules"
    /\ hArg' = context
    /\ ruleContext' = context
    /\ ruleTypes' = detectRules(context)
    /\ dpc' = "detected"
    /\ hRulesCall' = RulesCallOf(context, detectRules(context))
    /\ hPhase' = "awaitingRules"
    /\ UNCHANGED <<hText, hThrown, parserVars, clientVars, searchVars, templateVars,
                   promptVars, serverVars, authVars>>

\* searchRules settles: getRules and the handler run to their end, or the
\* error leaves both
GetCracRulesContinues ==
    /\ hOp = "get_crac_rules"
    /\ hPhase = "awaitingRules"
    /\ \E answer \in RulesAnswers :
         IF answer.threw
         THEN /\ hPhase' = "threw"
              /\ hThrown' = answer.error
              /\ UNCHANGED hText
         ELSE /\ hPhase' = "returned"
              /\ hText' = RulesResponse(ruleTypes, answer.content)
              /\ UNCHANGED hThrown
    /\ UNCHANGED <<hOp, hArg, hRulesCall, parserVars, clientVars, searchVars,
                   templateVars, detectorVars, promptVars, serverVars, authVars>>

\* an await of the handler has settled and its continuation has not run yet
AwaitSettled ==
    \/ /\ hPhase = "awaitingContext"
       /\ scPhase \in {"returned", "failed"}
    \/ /\ hPhase = "awaitingAll"
       /\ \/ tsPhase = "failed"
          \/ scPhase = "failed"
          \/ tsPhase = "returned" /\ scPhase = "returned"

\* the answers of embedContent that the handlers are run with
HandlerEmbedAnswers ==
    {r \in EmbedAnswers : r.threw \/ r.values = EMBEDDING_DIMENSION}

\* the answers of match_dev_contexts that the handlers are run with: an
\* error, no rows, or one row
HandlerSearchAnswers(q) ==
    {[data |-> Null, error |-> Some(Error(<<"function match_dev_contexts does not exist">>))],
     [data |-> Some(<<>>), error |-> Null],
     [data |-> Some(<<BackendRow(q, 1)>>), error |-> Null]}

\* an answer of a backend arrives while the handler waits for the retrieval
\* engines, and the code it resumes runs
BackendAnswers ==
    /\ hPhase \in {"awaitingContext", "awaitingAll"}
    /\ ~AwaitSettled
    /\ \/ ValidateScopeResponds
       \/ GetActiveScopesResponds
       \/ \E a \in AspectNames : \E response \in HandlerEmbedAnswers :
              EmbedRespondsWith(a, response)
       \/ \E a \in {b \in AspectNames : asp[b] = "searching"} :
              \E response \in HandlerSearchAnswers(QueryOf(a)) :
                  SearchRespondsWith(a, response)
       \/ \E t \in TemplateNames : \E response \in HandlerEmbedAnswers :
              TemplateEmbedRespondsWith(t, response)
       \/ \E t \in TemplateNames :
              \E response \in HandlerSearchAnswers(TemplateSearchCall(t)) \ {[data |-> Some(<<>>), error |-> Null]} :
                  TemplateSearchRespondsWith(t, response)

\* the nested rules fetch of the buildPrompt call of dev_task settles
PromptAssemblyEnds == RulesFetchResponds

HandlerInit ==
    /\ ParserIdle
    /\ env \in HandlerEnvironments
    /\ supabase = FALSE
    /\ genAI = FALSE
    /\ supabaseBuilt = 0
    /\ genAIBuilt = 0
    /\ devApps \in {[k \in Range(AppKeys) |-> "active"],
                    [k \in Range(AppKeys) |-> IF k = "rac" THEN "inactive" ELSE "active"]}
    /\ SearchIdle
    /\ TemplatesIdle
    /\ DetectorIdle
    /\ pbCommand = NoValue
    /\ pbContext = NoValue
    /\ pbSearcher \in BOOLEAN
    /\ pbPhase = "idle"
    /\ pbFetch = [called |-> FALSE]
    /\ pbPrompt = NoValue
    /\ pbError = NoError
    /\ ServerOff
    /\ HandlersIdle
    /\ AuthIdle

HandlerNext ==
    \/ \E command \in HandlerCommands : DevTask(command)
    \/ DevTaskContinues
    \/ \E command \in HandlerCommands : GenerateTasks(command)
    \/ GenerateTasksContinues
    \/ \E context \in HandlerRuleContexts : GetCracRules(context)
    \/ GetCracRulesContinues
    \/ BackendAnswers
    \/ PromptAssemblyEnds

HandlerSpec == HandlerInit /\ [][HandlerNext]_vars
(***************************************************************************)
(* Properties of the handlers.                                             *)
(***************************************************************************)
\* the argument is missing, empty or made of whitespace only
MissingOrWhitespace(arg) ==
    arg = Null \/ \A i \in 1..Len(arg[1]) : arg[1][i] \in {" ", "\t", "\n", "\r"}

\* nothing has been parsed, validated, embedded or searched, and no client
\* has been built
NothingStarted ==
    /\ parsed = NoValue
    /\ ppc = "idle"
    /\ scPhase = "idle"
    /\ scReq = NoValue
    /\ \A a \in AspectNames : asp[a] = "idle" /\ embedCalls[a] = 0 /\ searchCalls[a] = 0
    /\ tsPhase = "idle"
    /\ \A t \in TemplateNames : slot[t] = "idle"
    /\ pbPhase = "idle"
    /\ supabase = FALSE
    /\ genAI = FALSE
    /\ supabaseBuilt = 0
    /\ genAIBuilt = 0

\* C17: dev_task and generate_tasks answer a missing, empty or
\* whitespace-only command with their one error message, and nothing is
\* parsed, no scope is validated and no embedding or search call is made.
C17_BlankCommandOnlyErrorMessage ==
    (hOp \in {"dev_task", "generate_tasks"} /\ MissingOrWhitespace(hArg)) =>
        /\ hPhase = "returned"
        /\ hThrown = NoError
        /\ hOp = "dev_task" =>
               hText = <<"Error: Command cannot be empty. Please provide a development command.">>
        /\ hOp = "generate_tasks" =>
               hText = <<"Error: Command cannot be empty. Please provide a command for task generation.">>
        /\ NothingStarted

C17_Witness ==
    /\ hOp = "generate_tasks"
    /\ hArg = Some(<<" ", "\t">>)
    /\ hPhase = "returned"
    /\ Len(hText) = 1
    /\ NothingStarted

\* a command that is not blank sets the engines to work
C17_NonBlankStarts ==
    /\ hOp = "dev_task"
    /\ ~MissingOrWhitespace(hArg)
    /\ hPhase = "returned"
    /\ \E a \in AspectNames : searchCalls[a] = 1

\* C18: every failure inside dev_task, generate_tasks and get_crac_rules is
\* caught by the operation and returned as a text: no error leaves a
\* handler.
C18_FailuresReturnedAsText ==
    /\ hPhase # "threw"
    /\ hThrown = NoError
    /\ hPhase = "returned" => hText # <<>>

\* dev_task and generate_tasks do return their failures as a text
C18_CaughtInPrompts ==
    /\ hOp = "generate_tasks"
    /\ hPhase = "returned"
    /\ tsPhase = "failed"
    /\ hText = GenerateTasksErrorText(tsError)
    /\ ~IsEnvError(tsError.message)

\* dev_task has returned the prompt of a command whose context was retrieved
DevTaskSucceeded ==
    /\ hOp = "dev_task"
    /\ hPhase = "returned"
    /\ scPhase = "returned"

\* C21: on a successful dev_task invocation the response is composed only
\* after prompt assembly, nested rules fetch included, has completed, and
\* it is the RAG status header, the assembled system section, the separator
\* and the assembled user section, in this order.
C21_ResponseAfterAssembly ==
    DevTaskSucceeded =>
        /\ pbPhase = "built"
        /\ hText = RagStatusHeader(scResult, pbCommand.scope)
                       \o pbPrompt.system
                       \o <<"\n\n---\n\n">>
                       \o pbPrompt.user

\* the response of a successful dev_task while the rules fetch of its
\* buildPrompt call is still under way
C21_ResponseBeforeAssembly ==
    /\ DevTaskSucceeded
    /\ pbPhase = "fetchingRules"
    /\ hText = RagStatusHeader(scResult, pbCommand.scope)
                   \o <<"undefined", "\n\n---\n\n", "undefined">>
(***************************************************************************)
(* apiKeyAuthMiddleware on one request. One step is the code that runs     *)
(* between two awaits. The stored keys are up to MaxKeys rows, each the    *)
(* row of a live or of a test key.                                         *)
(***************************************************************************)
MaxKeys == 2

KeyLiveA == <<"r", "a", "g", "_", "l", "i", "v", "e", "_", "a">>

KeyTestA == <<"r", "a", "g", "_", "t", "e", "s", "t", "_", "a">>

KeyLiveB == <<"r", "a", "g", "_", "l", "i", "v", "e", "_", "b">>

PresentedKeys == {KeyLiveA, KeyTestA, KeyLiveB, <<"r", "a", "g", "_", "d", "e", "v", "_", "a">>, <<"s", "k", "_", "l", "i", "v", "e", "_", "a">>}

KeyRows ==
    {[prefix |-> PrefixMatch(k)[1], is_active |-> a, expires_at |-> x, key_hash |-> Hash(k)] :
         k \in {KeyLiveA, KeyTestA}, a \in BOOLEAN, x \in {"null", "past", "future"}}

\* the api_keys tables: the id of a row is its position
ApiKeyTables ==
    UNION {{[i \in 1..n |-> [id |-> i] @@ rows[i]] : rows \in [1..n -> KeyRows]} :
               n \in 0..MaxKeys}

AuthorizationHeaders ==
    {Null, Some(<<"B", "a", "s", "i", "c", " ">> \o KeyLiveA), Some(<<"b", "e", "a", "r", "e", "r", " ", " ">> \o KeyLiveA)}
        \cup {Some(<<"B", "e", "a", "r", "e", "r", " ">> \o k) : k \in PresentedKeys}

ApiKeyHeaders ==
    {[kind |-> "absent", value |-> <<>>],
     [kind |-> "string", value |-> KeyLiveA],
     [kind |-> "string", value |-> KeyTestA],
     [kind |-> "array", value |-> KeyLiveA]}

AuthRequests == [authorization : AuthorizationHeaders, xApiKey : ApiKeyHeaders]

AuthEnvironments ==
    [SUPABASE_URL              : {"unset", "ok"},
     SUPABASE_SERVICE_ROLE_KEY : {"ok"},
     GEMINI_API_KEY            : {"ok"}]

\* the answers of the select on api_keys: the rows, an error, or no data
ListAnswers(table) ==
    {[data |-> Some(table), error |-> Null],
     [data |-> Null, error |-> Some(NetworkError)],
     [data |-> Null, error |-> Null]}

\* the answers of the update of last_used_at: done, an error, or the query
\* throws
UpdateAnswers ==
    {[threw |-> FALSE, error |-> Null],
     [threw |-> FALSE, error |-> Some(NetworkError)],
     [threw |-> TRUE, error |-> Null]}

\* the 401 response of the middleware
Respond401(message) ==
    /\ mwStatus' = 401
    /\ mwBody' = Unauthorized(message)
    /\ mwPhase' = "responded"
    /\ UNCHANGED <<mwNext, mwAttached, mwThrown>>

\* the promise of the middleware is rejected with error
MiddlewareRejects(error) ==
    /\ mwPhase' = "rejected"
    /\ mwThrown' = error
    /\ UNCHANGED <<mwStatus, mwBody, mwNext, mwAttached>>

\* the loop of validateApiKey from position i of keys on, up to its next
\* await, and the 401 of the middleware when the loop ends
VerifyFrom(keys, i) ==
    IF NextToVerify(keys, i) = 0
    THEN /\ Respond401(InvalidApiKey)
         /\ UNCHANGED vIndex
    ELSE /\ mwPhase' = "verifying"
         /\ vIndex' = NextToVerify(keys, i)
         /\ UNCHANGED <<mwStatus, mwBody, mwNext, mwAttached, mwThrown>>

\* apiKeyAuthMiddleware(req, res, next) up to the await of listApiKeys
ApiKeyAuthMiddleware(headers) ==
    /\ mwPhase = "idle"
    /\ mwReq' = headers
    /\ mwApiKey' = extractApiKeyFromRequest(headers)
    /\ IF extractApiKeyFromRequest(headers) = Null
       THEN Respond401(ApiKeyRequired) /\ UNCHANGED authClient
       ELSE IF ~HasKeyFormat(extractApiKeyFromRequest(headers)[1])
       THEN Respond401(InvalidKeyFormat) /\ UNCHANGED authClient
       ELSE IF ~getApiKeysClient(authClient, env).ok
       THEN MiddlewareRejects(getApiKeysClient(authClient, env).error) /\ UNCHANGED authClient
       ELSE /\ authClient' = TRUE
            /\ mwPhase' = "listing"
            /\ UNCHANGED <<mwStatus, mwBody, mwNext, mwAttached, mwThrown>>
    /\ UNCHANGED <<apiKeys, vKeys, vIndex, updPhase, parserVars, clientVars, searchVars,
                   templateVars, detectorVars, promptVars, serverVars, handlerVars>>

\* the select of listApiKeys is answered with response: validateApiKey
\* throws, or filters the candidates and starts its loop
ListApiKeysRespondsWith(response) ==
    /\ mwPhase = "listing"
    /\ IF ~listApiKeysResult(response).ok
       THEN /\ MiddlewareRejects(listApiKeysResult(response).error)
            /\ UNCHANGED <<vKeys, vIndex>>
       ELSE /\ vKeys' = candidateKeys(listApiKeysResult(response).keys,
                                      PrefixMatch(mwApiKey[1])[1])
            /\ VerifyFrom(candidateKeys(listApiKeysResult(response).keys,
                                        PrefixMatch(mwApiKey[1])[1]), 1)
    /\ UNCHANGED <<apiKeys, authClient, mwReq, mwApiKey, updPhase, parserVars, clientVars,
                   searchVars, templateVars, detectorVars, promptVars, serverVars,
                   handlerVars>>

\* the select of listApiKeys is answered
ListApiKeysResponds ==
    \E response \in ListAnswers(apiKeys) : ListApiKeysRespondsWith(response)

\* bcrypt.compare answers for the key under verification: on a match the
\* update of last_used_at is sent and not awaited, validateApiKey returns
\* the key, and the middleware attaches it and calls next(); otherwise the
\* loop goes on
VerifyResponds ==
    /\ mwPhase = "verifying"
    /\ IF verifyApiKey(mwApiKey[1], vKeys[vIndex].key_hash)
       THEN /\ updPhase' = "pending"
            /\ mwAttached' = Some(vKeys[vIndex].id)
            /\ mwNext' = mwNext + 1
            /\ mwPhase' = "passed"
            /\ UNCHANGED <<vIndex, mwStatus, mwBody, mwThrown>>
       ELSE /\ VerifyFrom(vKeys, vIndex + 1)
            /\ UNCHANGED updPhase
    /\ UNCHANGED <<apiKeys, authClient, mwReq, mwApiKey, vKeys, parserVars, clientVars,
                   searchVars, templateVars, detectorVars, promptVars, serverVars,
                   handlerVars>>

\* the update of last_used_at is answered with response
UpdateRespondsWith(response) ==
    /\ updPhase = "pending"
    /\ updPhase' = CatchAndLog(updateLastUsedAtResult(response))
    /\ UNCHANGED <<apiKeys, authClient, mwReq, mwPhase, mwApiKey, vKeys, vIndex, mwStatus,
                   mwBody, mwNext, mwAttached, mwThrown, parserVars, clientVars,
                   searchVars, templateVars, detectorVars, promptVars, serverVars,
                   handlerVars>>

\* the update of last_used_at is answered
UpdateResponds == \E response \in UpdateAnswers : UpdateRespondsWith(response)

AuthInit ==
    /\ ParserIdle
    /\ env \in AuthEnvironments
    /\ supabase = FALSE
    /\ genAI = FALSE
    /\ supabaseBuilt = 0
    /\ genAIBuilt = 0
    /\ devApps \in {[k \in Range(AppKeys) |-> "active"]}
    /\ SearchIdle
    /\ TemplatesIdle
    /\ DetectorIdle
    /\ PromptIdle
    /\ ServerOff
    /\ HandlersIdle
    /\ apiKeys \in ApiKeyTables
    /\ authClient = FALSE
    /\ mwReq = NoValue
    /\ mwPhase = "idle"
    /\ mwApiKey = Null
    /\ vKeys = <<>>
    /\ vIndex = 0
    /\ mwStatus = 0
    /\ mwBody = NoValue
    /\ mwNext = 0
    /\ mwAttached = Null
    /\ mwThrown = NoError
    /\ updPhase = "none"

AuthNext ==
    \/ \E headers \in AuthRequests : ApiKeyAuthMiddleware(headers)
    \/ ListApiKeysResponds
    \/ VerifyResponds
    \/ UpdateResponds

AuthSpec == AuthInit /\ [][AuthNext]_vars

\* every query that was sent is answered
AuthFairSpec ==
    /\ AuthSpec
    /\ WF_vars(ListApiKeysResponds)
    /\ WF_vars(VerifyResponds)
    /\ WF_vars(UpdateResponds)

(***************************************************************************)
(* Properties of apiKeyAuthMiddleware and validateApiKey.                  *)
(***************************************************************************)
StartsWith(s, p) == Len(s) >= Len(p) /\ SubSeq(s, 1, Len(p)) = p

\* the stored key row has the live/test prefix of the presented key
SamePrefix(row, key) ==
    \/ row.prefix = "live" /\ StartsWith(key, <<"r","a","g","_","l","i","v","e","_">>)
    \/ row.prefix = "test" /\ StartsWith(key, <<"r","a","g","_","t","e","s","t","_">>)

\* a key was extracted, and some stored key with the same prefix is active,
\* not expired and verifies against it
PresentedKeyIsValid ==
    /\ mwApiKey # Null
    /\ \E i \in 1..Len(apiKeys) :
           /\ SamePrefix(apiKeys[i], mwApiKey[1])
           /\ apiKeys[i].is_active
           /\ apiKeys[i].expires_at # "past"
           /\ apiKeys[i].key_hash = Hash(mwApiKey[1])

\* the response sent is a 401 with a JSON-RPC error as its body
Answered401 ==
    /\ mwStatus = 401
    /\ mwBody # NoValue
    /\ mwBody.jsonrpc = "2.0"
    /\ mwBody.error.code = -32001
    /\ mwBody.error.message # <<>>
    /\ mwBody.id = Null

\* C28: the middleware calls next() only when a key was extracted and some
\* stored key with the same live/test prefix is active, not expired and
\* verifies against the presented key; every other validation that
\* completes answers 401 with a JSON-RPC error and does not call next().
C28_NextOnlyForValidKey ==
    /\ mwNext > 0 =>
           /\ PresentedKeyIsValid
           /\ mwNext = 1
           /\ mwStatus = 0
    /\ (mwPhase \in {"responded", "passed"} /\ ~PresentedKeyIsValid) =>
           /\ Answered401
           /\ mwNext = 0

\* next() was called for a key that verified against the second candidate,
\* the first one being expired
C28_Witness ==
    /\ mwPhase = "passed"
    /\ mwNext = 1
    /\ Len(vKeys) = 2
    /\ vKeys[1].expires_at = "past"
    /\ vKeys[1].key_hash = Hash(mwApiKey[1])
    /\ vIndex = 2

\* the request ended with exactly one of the 401 answer and the call of next()
ExactlyOneOutcome ==
    \/ Answered401 /\ mwNext = 0
    \/ mwStatus = 0 /\ mwNext = 1

\* C29: every request that enters the middleware ends with exactly one of a
\* 401 JSON-RPC error and a call of next(), also when the lookup of the
\* stored keys fails.
C29_EveryRequestEnds == (mwReq # NoValue) ~> ExactlyOneOutcome

\* the lookup of the stored keys failed, and the middleware has ended
\* without a response and without a call of next()
C29_LookupFailureEndsWithoutOutcome ==
    /\ mwPhase = "rejected"
    /\ mwThrown # NoError
    /\ mwStatus = 0
    /\ mwNext = 0

\* C30: the update of the last-used timestamp is detached: validateApiKey
\* has returned its valid result, and the middleware has called next(),
\* while the update is still under way, and a failure of the update changes
\* nothing of that result and is raised to no caller.
C30_UpdateDetached ==
    /\ updPhase # "none" =>
           /\ mwPhase = "passed"
           /\ mwNext = 1
           /\ mwStatus = 0
           /\ mwAttached = Some(vKeys[vIndex].id)
           /\ mwThrown = NoError
    /\ updPhase # "unhandled"

\* the update of a validated key has failed
C30_Witness ==
    /\ updPhase = "logged"
    /\ mwPhase = "passed"
    /\ mwNext = 1

\* next() has been called while the update is still unanswered
C30_ReturnedBeforeUpdate ==
    /\ updPhase = "pending"
    /\ mwPhase = "passed"

====
